---- MODULE Spec2Model ----
(***************************************************************************)
(* The scheduled-work orchestrator of ralphinho: DAG layering, the tier     *)
(* gate, the per-unit quality pipeline, the per-layer merge queue and the   *)
(* Ralph loop around them (src/src/components/ScheduledWorkflow.tsx,        *)
(* src/src/components/QualityPipeline.tsx, scheduled/types.ts).             *)
(*                                                                          *)
(* The output store is append-only and is read two ways: ctx.latest(table,  *)
(* nodeId), the most recently appended row of a node, and                   *)
(* ctx.outputMaybe(table, {nodeId, iteration}), the row a node wrote in one *)
(* Ralph iteration.  The model keeps the latest row of every node, and for  *)
(* the test rows (the only ones read by iteration) the iteration that wrote *)
(* them, which answers both reads; what the whole history would add (every  *)
(* landed list ever appended, the iteration of a unit's last eviction) is   *)
(* kept in history variables that no action of the program reads.           *)
(*                                                                          *)
(* The workflow function is re-rendered before every task is scheduled, so  *)
(* every guard below is evaluated on the store as it is when the step is    *)
(* taken.                                                                   *)
(***************************************************************************)
EXTENDS Integers, Sequences, FiniteSets, TLC

\* ---------------------------------------------------------------- values

\* An absent row: what ctx.latest / ctx.outputMaybe / Array.find return when
\* nothing matches (undefined).
None == [none |-> TRUE]

Range(s) == {s[i] : i \in DOMAIN s}

MaxOf(S) == CHOOSE x \in S : \A y \in S : y <= x

MinOf(S) == CHOOSE x \in S : \A y \in S : x <= y

\* maxPasses = 3, the default of the component's prop (MAX_PASSES in the
\* generated workflow).
maxPasses == 3

\* ------------------------------------------------------------ stage gate

StageOrder ==
    << "research", "plan", "implement", "test",
       "prd-review", "code-review", "review-fix", "final-review" >>

StageNames == Range(StageOrder)

\* A variant of the table in which small ends with final-review.
SCHEDULED_TIERS_SmallFinal ==
    [ trivial |-> << "implement", "test" >>,
      small   |-> << "implement", "test", "code-review", "final-review" >>,
      medium  |-> << "research", "plan", "implement", "test",
                     "prd-review", "code-review", "review-fix" >>,
      large   |-> << "research", "plan", "implement", "test",
                     "prd-review", "code-review", "review-fix", "final-review" >> ]

SCHEDULED_TIERS ==
    [ trivial |-> << "implement", "test" >>,
      small   |-> << "implement", "test", "code-review" >>,
      medium  |-> << "research", "plan", "implement", "test",
                     "prd-review", "code-review", "review-fix" >>,
      large   |-> << "research", "plan", "implement", "test",
                     "prd-review", "code-review", "review-fix", "final-review" >> ]

TierNames == DOMAIN SCHEDULED_TIERS

\* The stages of each tier's list, as a set.
TierStageSets == [tier \in TierNames |-> Range(SCHEDULED_TIERS[tier])]

tierHasStep(tier, step) ==
    IF tier \in TierNames
    THEN step \in TierStageSets[tier]
    ELSE step \in TierStageSets.large

\* ------------------------------------------------------------- work plan

\* A work unit: [id, deps (a list of ids), tier].
Unit(i, d, t) == [id |-> i, deps |-> d, tier |-> t]

UnitIds(units) == {units[i].id : i \in DOMAIN units}

\* units.find((u) => u.id === id): the first unit with that id.
findUnit(units, id) ==
    LET hits == {i \in DOMAIN units : units[i].id = id}
    IN  IF hits = {} THEN None ELSE units[MinOf(hits)]

\* A variant of getLayer that takes the least layer of the deps.
RECURSIVE getLayerMin(_, _)
getLayerMin(units, id) ==
    LET unit == findUnit(units, id)
    IN  IF unit = None \/ Len(unit.deps) = 0
        THEN 0
        ELSE 1 + MinOf({getLayerMin(units, unit.deps[k]) : k \in DOMAIN unit.deps})

\* getLayer of computeLayers: 0 for a unit without deps (or an id that names
\* no unit), else 1 + the greatest layer of its deps.
RECURSIVE getLayer(_, _)
getLayer(units, id) ==
    LET unit == findUnit(units, id)
    IN  IF unit = None \/ Len(unit.deps) = 0
        THEN 0
        ELSE 1 + MaxOf({getLayer(units, unit.deps[k]) : k \in DOMAIN unit.deps})

\* A variant of filterLayer that lists the kept elements last to first.
RECURSIVE filterLayerReversed(_, _, _)
filterLayerReversed(units, i, n) ==
    IF n > Len(units) THEN << >>
    ELSE IF getLayer(units, units[n].id) = i
         THEN filterLayerReversed(units, i, n + 1) \o << units[n] >>
         ELSE filterLayerReversed(units, i, n + 1)

\* units.filter(pred) as the list of kept elements, in input order.
RECURSIVE filterLayer(_, _, _)
filterLayer(units, i, n) ==
    IF n > Len(units) THEN << >>
    ELSE IF getLayer(units, units[n].id) = i
         THEN << units[n] >> \o filterLayer(units, i, n + 1)
         ELSE filterLayer(units, i, n + 1)

\* computeLayers(units): layers 0..maxLayer, each the units of that layer in
\* input order.  TLA+ sequences start at 1: layer index i is element i + 1.
computeLayers(units) ==
    LET maxLayer == MaxOf({getLayer(units, units[n].id) : n \in DOMAIN units} \cup {0})
    IN  [i \in 1..(maxLayer + 1) |-> filterLayer(units, i - 1, 1)]

\* unitLayerMap: the layer index of every unit that is in some layer.
unitLayerMapOf(lys) ==
    LET at(id) == {i \in DOMAIN lys : \E n \in DOMAIN lys[i] : lys[i][n].id = id}
        ids == UNION {UnitIds(lys[i]) : i \in DOMAIN lys}
    IN  [id \in ids |-> MaxOf(at(id)) - 1]

\* Two independent trivial units: one layer, two pipelines side by side.
PlanAB == << Unit("a", << >>, "trivial"), Unit("b", << >>, "trivial") >>

\* A small unit depending on a trivial one: two layers.
PlanAC == << Unit("a", << >>, "trivial"), Unit("c", << "a" >>, "small") >>

\* One large unit: the whole pipeline, both reviews, review-fix, final-review.
PlanL == << Unit("l", << >>, "large") >>

\* A plan without units.
PlanEmpty == << >>

\* The runs explored: a work plan and the maxConcurrency prop of the workflow
\* (the --max-concurrency flag, at least 1).
Runs == { << PlanAB, 1 >>, << PlanAB, 2 >>, << PlanAC, 1 >>, << PlanL, 1 >>,
          << PlanEmpty, 1 >> }

\* ------------------------------------------------------------ the store

VARIABLES
    workPlan,           \* workPlan.units, fixed during a run
    maxConcurrency,     \* the maxConcurrency prop, fixed during a run
    layers,             \* const layers = computeLayers(units)
    unitLayerMap,       \* the Map from unit id to layer index
    out,                \* out[unitId][stage]: latest stage row, or None
    mq,                 \* mq[layerIdx]: latest merge_queue row of the layer, or None
    pass_tracker,       \* latest pass_tracker row, or None
    completion_report,  \* the completion_report row, or None
    iteration,          \* ctx.iteration: the Ralph iteration being rendered
    loopPos,            \* where the engine is in the tree: [phase, layer]
    fin,                \* fin[u]: stage tasks of u finished or skipped in this iteration
    run,                \* run[u]: stage tasks of u in progress
    failed,             \* failed[u]: stage tasks of u that failed in this iteration
    tickets,            \* the tickets of the merge queue invocation in progress
    everLanded,         \* history: ids that appeared in any ticketsLanded so far
    evictedIn,          \* history: iteration of each id's last eviction, -1 if none
    mqDone,             \* history: layers whose merge queue is over in this iteration
    verdict             \* None, or the result of a tierComplete evaluation

vars == << workPlan, maxConcurrency, layers, unitLayerMap, out, mq, pass_tracker,
           completion_report, iteration, loopPos, fin, run, failed, tickets,
           everLanded, evictedIn, mqDone, verdict >>

\* The variables no step of a run changes.
plan == << workPlan, maxConcurrency, layers, unitLayerMap, verdict >>

\* ctx.latest(<stage table>, `${unitId}:<stage>`)
latest(o, unitId, stage) ==
    IF unitId \in DOMAIN o THEN o[unitId][stage] ELSE None

\* ctx.outputMaybe("test", {nodeId, iteration}): the row of that iteration.
\* Iterations only grow, so such a row exists iff it is the latest one.
outputMaybe(o, unitId, stage, it) ==
    LET r == latest(o, unitId, stage)
    IN  IF r # None /\ r.it = it THEN r ELSE None

\* row?.field for a boolean field: false when the row is absent.
Flag(r, f) == r # None /\ r[f]

\* ---------------------------------------------------------- tier complete

\* Variant of tierComplete: the small tier passes without its code review.
tierCompleteSmallNoReview(o, units, unitId) ==
    LET unit == findUnit(units, unitId)
        tier == IF unit = None THEN "large" ELSE unit.tier
        test == latest(o, unitId, "test")
    IN  IF ~Flag(test, "testsPassed") \/ ~Flag(test, "buildPassed") THEN FALSE
        ELSE CASE tier = "trivial" -> TRUE
               [] tier = "small" -> TRUE
               [] tier = "medium" ->
                    IF Flag(latest(o, unitId, "prd-review"), "approved")
                       /\ Flag(latest(o, unitId, "code-review"), "approved")
                    THEN TRUE
                    ELSE Flag(latest(o, unitId, "review-fix"), "allIssuesResolved")
               [] OTHER -> Flag(latest(o, unitId, "final-review"), "readyToMoveOn")

\* Variant of tierComplete: the large tier is not held to the test gate.
tierCompleteLargeNoTest(o, units, unitId) ==
    LET unit == findUnit(units, unitId)
        tier == IF unit = None THEN "large" ELSE unit.tier
        test == latest(o, unitId, "test")
    IN  IF tier \in {"trivial", "small", "medium"}
           /\ (~Flag(test, "testsPassed") \/ ~Flag(test, "buildPassed"))
        THEN FALSE
        ELSE CASE tier = "trivial" -> TRUE
               [] tier = "small" -> Flag(latest(o, unitId, "code-review"), "approved")
               [] tier = "medium" ->
                    IF Flag(latest(o, unitId, "prd-review"), "approved")
                       /\ Flag(latest(o, unitId, "code-review"), "approved")
                    THEN TRUE
                    ELSE Flag(latest(o, unitId, "review-fix"), "allIssuesResolved")
               [] OTHER -> Flag(latest(o, unitId, "final-review"), "readyToMoveOn")

\* Variant of tierComplete: the trivial tier waits for a code review.
tierCompleteTrivialReviewed(o, units, unitId) ==
    LET unit == findUnit(units, unitId)
        tier == IF unit = None THEN "large" ELSE unit.tier
        test == latest(o, unitId, "test")
    IN  IF ~Flag(test, "testsPassed") \/ ~Flag(test, "buildPassed") THEN FALSE
        ELSE CASE tier = "trivial" -> Flag(latest(o, unitId, "code-review"), "approved")
               [] tier = "small" -> Flag(latest(o, unitId, "code-review"), "approved")
               [] tier = "medium" ->
                    IF Flag(latest(o, unitId, "prd-review"), "approved")
                       /\ Flag(latest(o, unitId, "code-review"), "approved")
                    THEN TRUE
                    ELSE Flag(latest(o, unitId, "review-fix"), "allIssuesResolved")
               [] OTHER -> Flag(latest(o, unitId, "final-review"), "readyToMoveOn")

tierComplete(o, units, unitId) ==
    LET unit == findUnit(units, unitId)
        tier == IF unit = None THEN "large" ELSE unit.tier
        test == latest(o, unitId, "test")
    IN  IF ~Flag(test, "testsPassed") \/ ~Flag(test, "buildPassed") THEN FALSE
        ELSE CASE tier = "trivial" -> TRUE
               [] tier = "small" -> Flag(latest(o, unitId, "code-review"), "approved")
               [] tier = "medium" ->
                    IF Flag(latest(o, unitId, "prd-review"), "approved")
                       /\ Flag(latest(o, unitId, "code-review"), "approved")
                    THEN TRUE
                    ELSE Flag(latest(o, unitId, "review-fix"), "allIssuesResolved")
               [] OTHER -> Flag(latest(o, unitId, "final-review"), "readyToMoveOn")

\* ---------------------------------------------------------- landing gates

\* ctx.latest("merge_queue", `merge-queue:layer-${layerIdx}`)
latestMq(m, layerIdx) ==
    IF layerIdx \in DOMAIN m THEN m[layerIdx] ELSE None

\* A variant of unitLanded that finds no unit landed.
unitLandedNever(m, lmap, unitId) == FALSE

unitLanded(m, lmap, unitId) ==
    IF unitId \notin DOMAIN lmap THEN FALSE
    ELSE LET row == latestMq(m, lmap[unitId])
         IN  row # None /\ unitId \in row.ticketsLanded

\* A variant of unitEvicted that does not ask unitLanded first.
unitEvictedNoSupersede(m, lmap, unitId) ==
    IF unitId \notin DOMAIN lmap THEN FALSE
    ELSE LET row == latestMq(m, lmap[unitId])
         IN  row # None /\ unitId \in row.ticketsEvicted

unitEvicted(m, lmap, unitId) ==
    IF unitLanded(m, lmap, unitId) THEN FALSE
    ELSE IF unitId \notin DOMAIN lmap THEN FALSE
    ELSE LET row == latestMq(m, lmap[unitId])
         IN  row # None /\ unitId \in row.ticketsEvicted

\* A variant of getEvictionContext that never finds details.
getEvictionContextNone(m, lmap, unitId) == None

\* getEvictionContext(unitId): null for a landed unit or an id in no layer,
\* else the details of the unit's entry in ticketsEvicted of the latest
\* merge_queue row of its layer, null when there is no such entry.
getEvictionContext(m, lmap, unitId) ==
    IF unitLanded(m, lmap, unitId) THEN None
    ELSE IF unitId \notin DOMAIN lmap THEN None
    ELSE LET row == latestMq(m, lmap[unitId])
         IN  IF row # None /\ unitId \in row.ticketsEvicted
             THEN row.details[unitId]
             ELSE None

unitComplete(m, lmap, unitId) == unitLanded(m, lmap, unitId)

\* passTracker?.totalIterations ?? 0
currentPass(pt) == IF pt = None THEN 0 ELSE pt.totalIterations

allUnitsComplete(m, lmap, units) ==
    \A n \in DOMAIN units : unitComplete(m, lmap, units[n].id)

done(pt, m, lmap, units) ==
    currentPass(pt) >= maxPasses \/ allUnitsComplete(m, lmap, units)

\* A variant of buildMergeTickets that also looks at the tasks in progress,
\* which are no part of the store.
buildMergeTicketsIdle(o, m, lmap, units, layer, it) ==
    { layer[n].id : n \in
        { k \in DOMAIN layer :
            LET id == layer[k].id
            IN  IF unitLanded(m, lmap, id) THEN FALSE
                ELSE IF run[id] # {} THEN FALSE
                ELSE IF ~tierComplete(o, units, id) THEN FALSE
                ELSE IF unitEvicted(m, lmap, id)
                     THEN LET freshTest == outputMaybe(o, id, "test", it)
                          IN  Flag(freshTest, "testsPassed") /\ Flag(freshTest, "buildPassed")
                     ELSE TRUE } }

\* The ticket ids of buildMergeTickets(layer), evaluated in iteration it.
buildMergeTickets(o, m, lmap, units, layer, it) ==
    { layer[n].id : n \in
        { k \in DOMAIN layer :
            LET id == layer[k].id
            IN  IF unitLanded(m, lmap, id) THEN FALSE
                ELSE IF ~tierComplete(o, units, id) THEN FALSE
                ELSE IF unitEvicted(m, lmap, id)
                     THEN LET freshTest == outputMaybe(o, id, "test", it)
                          IN  Flag(freshTest, "testsPassed") /\ Flag(freshTest, "buildPassed")
                     ELSE TRUE } }

\* ------------------------------------------------------ quality pipeline

\* A variant of pipelineTasks that renders every stage task for every tier.
pipelineTasksAll(tier) == StageNames

\* The stage tasks QualityPipeline renders for a tier: implement and test are
\* rendered unconditionally, every other stage behind tierHasStep.
pipelineTasks(tier) ==
    {"implement", "test"} \cup {s \in StageNames : tierHasStep(tier, s)}

\* ------------------------------------------------------------------ texts

\* A text is a list of characters.  The characters of the model: a letter,
\* a space, a line feed, and one character for each fixed label of
\* QualityPipeline ("Final review feedback:", "PRD review feedback:", "Code
\* review feedback:").
Whitespace == {" ", "\n"}

\* The reasoning texts of a final review that is not ready to move on:
\* empty, plain, ending in white space, starting with white space.  (A
\* review that is ready to move on gives the plain one.)
ReasoningTexts == { << >>, << "r" >>, << "r", " " >>, << " ", "r" >> }

\* String.prototype.trim
RECURSIVE trimStart(_)
trimStart(t) ==
    IF Len(t) > 0 /\ t[1] \in Whitespace THEN trimStart(Tail(t)) ELSE t

RECURSIVE trimEnd(_)
trimEnd(t) ==
    IF Len(t) > 0 /\ t[Len(t)] \in Whitespace
    THEN trimEnd(SubSeq(t, 1, Len(t) - 1))
    ELSE t

trim(t) == trimEnd(trimStart(t))

\* lines.join("\n\n")
RECURSIVE join(_)
join(lines) ==
    IF Len(lines) = 0 THEN << >>
    ELSE IF Len(lines) = 1 THEN lines[1]
    ELSE lines[1] \o << "\n", "\n" >> \o join(Tail(lines))

\* buildReviewFeedback(parts): the parts that are neither null nor empty,
\* each trimmed, those left non-empty joined by a blank line; undefined
\* when none is left.
buildReviewFeedback(parts) ==
    LET kept == SelectSeq(parts, LAMBDA p : p # None /\ p # << >>)
        trimmed == [i \in DOMAIN kept |-> trim(kept[i])]
        lines == SelectSeq(trimmed, LAMBDA p : Len(p) > 0)
    IN  IF Len(lines) > 0 THEN join(lines) ELSE None

\* row?.field ? `<label>\n${row.field}` : null
labelled(label, r, f) ==
    IF r # None /\ r[f] # << >> THEN << label, "\n" >> \o r[f] ELSE None

\* A variant of combinedReviewFeedback without the final review's part.
combinedReviewFeedbackReviewsOnly(o, uid) ==
    buildReviewFeedback(
        << labelled("PRD review feedback:", latest(o, uid, "prd-review"), "feedback"),
           labelled("Code review feedback:", latest(o, uid, "code-review"), "feedback") >>)

\* combinedReviewFeedback of QualityPipeline, from the latest review rows.
combinedReviewFeedback(o, uid) ==
    buildReviewFeedback(
        << labelled("Final review feedback:", latest(o, uid, "final-review"), "reasoning"),
           labelled("PRD review feedback:", latest(o, uid, "prd-review"), "feedback"),
           labelled("Code review feedback:", latest(o, uid, "code-review"), "feedback") >>)

\* The props of ImplementPrompt that carry what earlier passes reported.
implementInput(o, m, lmap, uid) ==
    [evictionContext |-> getEvictionContext(m, lmap, uid),
     reviewFeedback |-> combinedReviewFeedback(o, uid)]

\* A variant of slot that puts review-fix into the <Parallel> of the reviews.
slotReviewFixEarly(s) ==
    CASE s = "research" -> 1
      [] s = "plan" -> 2
      [] s = "implement" -> 3
      [] s = "test" -> 4
      [] s \in {"prd-review", "code-review", "review-fix"} -> 5
      [] OTHER -> 7

\* The position of a stage task in the pipeline's <Sequence>; prd-review and
\* code-review share one <Parallel>.
slot(s) ==
    CASE s = "research" -> 1
      [] s = "plan" -> 2
      [] s = "implement" -> 3
      [] s = "test" -> 4
      [] s \in {"prd-review", "code-review"} -> 5
      [] s = "review-fix" -> 6
      [] OTHER -> 7

\* Variant of continueOnFail: every task continues on failure.
continueOnFailEverywhere(s) == TRUE

\* continueOnFail is set on the two review tasks only.
continueOnFail(s) == s \in {"prd-review", "code-review"}

\* A variant of bothApproved that takes a missing prd-review row as approval.
bothApprovedPrdDefault(o, tier, uid) ==
    LET prdReview == latest(o, uid, "prd-review")
        codeReview == latest(o, uid, "code-review")
    IN  (IF prdReview = None THEN TRUE ELSE prdReview.approved)
        /\ Flag(codeReview, "approved")

\* bothApproved: the skipIf of review-fix.
bothApproved(o, tier, uid) ==
    LET prdReview == latest(o, uid, "prd-review")
        codeReview == latest(o, uid, "code-review")
    IN  (IF prdReview = None THEN ~tierHasStep(tier, "prd-review") ELSE prdReview.approved)
        /\ Flag(codeReview, "approved")

\* The rows a worker may return for a stage: the fields the orchestrator
\* reads, and for a test row the iteration that wrote it.
stageRows(s, it) ==
    CASE s = "test" ->
            {[it |-> it, buildPassed |-> b, testsPassed |-> t] : b, t \in BOOLEAN}
      [] s \in {"prd-review", "code-review"} ->
            {[approved |-> a, feedback |-> << "f" >>] : a \in BOOLEAN}
      [] s = "review-fix" -> {[allIssuesResolved |-> a] : a \in BOOLEAN}
      [] s = "final-review" ->
            {[readyToMoveOn |-> FALSE, reasoning |-> r] : r \in ReasoningTexts}
                \cup {[readyToMoveOn |-> TRUE, reasoning |-> << "r" >>]}
      [] OTHER -> {[written |-> TRUE]}

\* layers[layerIdx] of the code (0-based).
layerAt(layerIdx) == layers[layerIdx + 1]

lastLayer == Len(layers) - 1

tierOf(uid) == findUnit(workPlan, uid).tier

\* if (unitLanded(unit.id)) return null: the pipeline of a landed unit is not
\* rendered.
pipelineRendered(uid) == ~unitLanded(mq, unitLayerMap, uid)

\* A task of the unit failed without continueOnFail: its <Sequence> stops
\* there for this iteration.
halted(uid) == \E s \in failed[uid] : ~continueOnFail(s)

\* Every task of the unit's pipeline is over for this iteration, or the
\* pipeline stopped at a failed task.
pipelineSettled(uid) ==
    /\ run[uid] = {}
    /\ \/ halted(uid)
       \/ pipelineTasks(tierOf(uid)) \subseteq fin[uid]

\* The units of the layer's <Parallel> that have a task in progress.
runningUnits == {u \in DOMAIN run : run[u] # {}}

\* A variant of belowConcurrency without the bound.
belowConcurrencyUnbounded(uid) == TRUE

\* <Parallel maxConcurrency={maxConcurrency}> over the layer's pipelines: a
\* pipeline gets a task started only while fewer than maxConcurrency other
\* pipelines have one in progress.
belowConcurrency(uid) == Cardinality(runningUnits \ {uid}) < maxConcurrency

\* Variant of stageReady: the layer's <Sequence> does not hold a later layer
\* back.
stageReadyAnyLayer(uid, s) ==
    /\ loopPos.phase = "pipelines"
    /\ s \notin fin[uid] \cup run[uid]
    /\ ~halted(uid)
    /\ pipelineRendered(uid)
    /\ LET tasks == pipelineTasks(tierOf(uid))
       IN  /\ s \in tasks
           /\ \A q \in tasks : slot(q) < slot(s) => q \in fin[uid]

\* A stage task of the unit is the next to schedule in its <Sequence>.
stageReady(uid, s) ==
    /\ loopPos.phase = "pipelines"
    /\ unitLayerMap[uid] = loopPos.layer
    /\ s \notin fin[uid] \cup run[uid]
    /\ ~halted(uid)
    /\ pipelineRendered(uid)
    /\ LET tasks == pipelineTasks(tierOf(uid))
       IN  /\ s \in tasks
           /\ \A q \in tasks : slot(q) < slot(s) => q \in fin[uid]

\* skipIf={bothApproved}, on review-fix only.
skipped(uid, s) == s = "review-fix" /\ bothApproved(out, tierOf(uid), uid)

\* The engine can schedule the task: it is next in its pipeline, and it is
\* skipped or the layer's <Parallel> has room for it.
canSchedule(uid, s) ==
    stageReady(uid, s) /\ (skipped(uid, s) \/ belowConcurrency(uid))

\* The engine schedules a stage task: review-fix is skipped, and writes no
\* row, when its skipIf holds; any other task starts once the layer's
\* <Parallel> has room.
StageSchedule(uid, s) ==
    /\ canSchedule(uid, s)
    /\ IF skipped(uid, s)
       THEN /\ fin' = [fin EXCEPT ![uid] = @ \cup {s}]
            /\ run' = run
       ELSE /\ run' = [run EXCEPT ![uid] = @ \cup {s}]
            /\ fin' = fin
    /\ UNCHANGED << plan, out, mq, pass_tracker, completion_report, iteration,
                    loopPos, failed, tickets, everLanded, evictedIn, mqDone >>

\* The worker returns a row: it is appended to the store.
StageFinish(uid, s) ==
    /\ s \in run[uid]
    /\ \E row \in stageRows(s, iteration) :
          out' = [out EXCEPT ![uid][s] = row]
    /\ run' = [run EXCEPT ![uid] = @ \ {s}]
    /\ fin' = [fin EXCEPT ![uid] = @ \cup {s}]
    /\ UNCHANGED << plan, mq, pass_tracker, completion_report, iteration,
                    loopPos, failed, tickets, everLanded, evictedIn, mqDone >>

\* The worker call fails for good (no parseable row after the retries): no row
\* is appended.  A review task continues on failure; any other task stops the
\* unit's pipeline for this iteration.
StageFail(uid, s) ==
    /\ s \in run[uid]
    /\ run' = [run EXCEPT ![uid] = @ \ {s}]
    /\ failed' = [failed EXCEPT ![uid] = @ \cup {s}]
    /\ fin' = IF continueOnFail(s) THEN [fin EXCEPT ![uid] = @ \cup {s}] ELSE fin
    /\ UNCHANGED << plan, out, mq, pass_tracker, completion_report, iteration,
                    loopPos, tickets, everLanded, evictedIn, mqDone >>

\* ----------------------------------------------------------- merge queue

\* A variant of phaseOneOver that does not wait for the pipelines.
phaseOneOverEarly == loopPos.phase = "pipelines"

\* Phase 1 of the layer is over: every rendered pipeline is settled.
phaseOneOver ==
    /\ loopPos.phase = "pipelines"
    /\ \A n \in DOMAIN layerAt(loopPos.layer) :
          LET uid == layerAt(loopPos.layer)[n].id
          IN  pipelineRendered(uid) => pipelineSettled(uid)

\* What follows the merge queue of a layer: the next layer, or the pass tracker.
afterLayer(layerIdx) ==
    IF layerIdx < lastLayer
    THEN [phase |-> "pipelines", layer |-> layerIdx + 1]
    ELSE [phase |-> "tracker", layer |-> 0]

\* The merge queue task of the layer starts with the tickets of this render.
LandingStart ==
    /\ phaseOneOver
    /\ tickets' = buildMergeTickets(out, mq, unitLayerMap, workPlan,
                                    layerAt(loopPos.layer), iteration)
    /\ loopPos' = [loopPos EXCEPT !.phase = "landing"]
    /\ UNCHANGED << plan, out, mq, pass_tracker, completion_report, iteration,
                    fin, run, failed, everLanded, evictedIn, mqDone >>

\* The generated workflow skips the task when there is nothing to merge
\* (skipIf={toMerge.length === 0}): no row is appended.
LandingSkip ==
    /\ phaseOneOver
    /\ buildMergeTickets(out, mq, unitLayerMap, workPlan,
                         layerAt(loopPos.layer), iteration) = {}
    /\ loopPos' = afterLayer(loopPos.layer)
    /\ mqDone' = mqDone \cup {loopPos.layer}
    /\ UNCHANGED << plan, out, mq, pass_tracker, completion_report, iteration,
                    fin, run, failed, tickets, everLanded, evictedIn >>

\* The details text of an evicted ticket is the landing worker's free text:
\* it stands in the model as the text written for that ticket in that
\* iteration, different from the text of every other eviction.
EvictionDetail(unitId, it) == [ticketId |-> unitId, writtenIn |-> it]

\* What the landing worker finds for a ticket when it follows its
\* instructions: the workspace is missing, the rebase onto main conflicts,
\* the tests fail on the rebased code, or they pass.
Findings == {"no-workspace", "conflict", "tests-fail", "tests-pass"}

\* A variant of landTicket that lands a ticket whose tests fail after the rebase.
landTicketIgnoreCI(finding) ==
    IF finding = "no-workspace"
    THEN [status |-> "skipped", reason |-> "no-workspace", mainAdvanced |-> FALSE]
    ELSE IF finding = "conflict"
    THEN [status |-> "evicted", reason |-> "conflict", mainAdvanced |-> FALSE]
    ELSE [status |-> "landed", reason |-> "none", mainAdvanced |-> TRUE]

\* The instructions of the merge queue prompt for one ticket: on a conflict
\* evict without resolving; on a clean rebase run the tests, evict when they
\* fail, else fast-forward main and mark the ticket landed.
landTicket(finding) ==
    IF finding = "no-workspace"
    THEN [status |-> "skipped", reason |-> "no-workspace", mainAdvanced |-> FALSE]
    ELSE IF finding = "conflict"
    THEN [status |-> "evicted", reason |-> "conflict", mainAdvanced |-> FALSE]
    ELSE IF finding = "tests-fail"
    THEN [status |-> "evicted", reason |-> "ci-failure", mainAdvanced |-> FALSE]
    ELSE [status |-> "landed", reason |-> "none", mainAdvanced |-> TRUE]

\* The landing worker returns its row: every ticket landed, evicted or
\* skipped. The field found keeps what the worker found for each ticket; no
\* render reads it.
LandingFinish ==
    /\ loopPos.phase = "landing"
    /\ \E found \in [tickets -> Findings] :
          LET landed == {u \in tickets : landTicket(found[u]).status = "landed"}
              evicted == {u \in tickets : landTicket(found[u]).status = "evicted"}
              advanced == {u \in tickets : landTicket(found[u]).mainAdvanced}
          IN  /\ mq' = [mq EXCEPT ![loopPos.layer] =
                        [ticketsLanded |-> landed,
                         ticketsEvicted |-> evicted,
                         details |-> [u \in evicted |-> EvictionDetail(u, iteration)],
                         reasons |-> [u \in evicted |-> landTicket(found[u]).reason],
                         found |-> found,
                         ticketsSkipped |-> tickets \ (landed \cup evicted)]]
              /\ everLanded' = everLanded \cup advanced
              /\ evictedIn' = [u \in DOMAIN evictedIn |->
                                  IF u \in evicted THEN iteration ELSE evictedIn[u]]
    /\ tickets' = {}
    /\ loopPos' = afterLayer(loopPos.layer)
    /\ mqDone' = mqDone \cup {loopPos.layer}
    /\ UNCHANGED << plan, out, pass_tracker, completion_report, iteration,
                    fin, run, failed >>

\* ------------------------------------------------------------ Ralph loop

\* A variant of maxIterations: the ceiling is the number of units.
maxIterationsUnits == Len(workPlan)

\* The hard ceiling of the loop: maxIterations={maxPasses * units.length * 20}.
maxIterations == maxPasses * Len(workPlan) * 20

\* Variant of PassTracker: the row repeats the pass number it read.
PassTrackerNoIncrement ==
    /\ loopPos.phase = "tracker"
    /\ pass_tracker' = [totalIterations |-> currentPass(pass_tracker)]
    /\ iteration' = iteration + 1
    /\ loopPos' = [phase |-> "ralph", layer |-> 0]
    /\ fin' = [u \in DOMAIN fin |-> {}]
    /\ failed' = [u \in DOMAIN failed |-> {}]
    /\ mqDone' = {}
    /\ UNCHANGED << plan, out, mq, completion_report, run, tickets,
                    everLanded, evictedIn >>

\* The pass-tracker compute task, the last task of the loop body: when it is
\* over the iteration is over.
PassTracker ==
    /\ loopPos.phase = "tracker"
    /\ pass_tracker' = [totalIterations |-> currentPass(pass_tracker) + 1]
    /\ iteration' = iteration + 1
    /\ loopPos' = [phase |-> "ralph", layer |-> 0]
    /\ fin' = [u \in DOMAIN fin |-> {}]
    /\ failed' = [u \in DOMAIN failed |-> {}]
    /\ mqDone' = {}
    /\ UNCHANGED << plan, out, mq, completion_report, run, tickets,
                    everLanded, evictedIn >>

\* until={done} is false and the ceiling is not reached: the body is rendered
\* for the next iteration.
RalphIterate ==
    /\ loopPos.phase = "ralph"
    /\ ~done(pass_tracker, mq, unitLayerMap, workPlan)
    /\ iteration < maxIterations
    /\ loopPos' = [phase |-> "pipelines", layer |-> 0]
    /\ UNCHANGED << plan, out, mq, pass_tracker, completion_report, iteration,
                    fin, run, failed, tickets, everLanded, evictedIn, mqDone >>

\* The loop is over: done holds, or the ceiling is reached (return-last).
RalphExit ==
    /\ loopPos.phase = "ralph"
    /\ done(pass_tracker, mq, unitLayerMap, workPlan) \/ iteration >= maxIterations
    /\ loopPos' = [phase |-> "report", layer |-> 0]
    /\ UNCHANGED << plan, out, mq, pass_tracker, completion_report, iteration,
                    fin, run, failed, tickets, everLanded, evictedIn, mqDone >>

\* The stages in the order the completion report scans them.
reportStages ==
    << "final-review", "review-fix", "code-review", "prd-review",
       "test", "implement", "plan", "research" >>

\* A variant of lastStageOf that scans the stages from research on.
RECURSIVE lastStageForward(_, _, _)
lastStageForward(o, unitId, k) ==
    IF k > Len(StageOrder) THEN "not-started"
    ELSE IF latest(o, unitId, StageOrder[k]) # None THEN StageOrder[k]
    ELSE lastStageForward(o, unitId, k + 1)

\* lastStage of a failed unit: the first stage of the scan, from its k-th
\* stage on, that has a row in the store, else "not-started".
RECURSIVE lastStageOf(_, _, _)
lastStageOf(o, unitId, k) ==
    IF k > Len(reportStages) THEN "not-started"
    ELSE IF latest(o, unitId, reportStages[k]) # None THEN reportStages[k]
    ELSE lastStageOf(o, unitId, k + 1)

\* reason of a failed unit, by its kind: the default, replaced by the
\* eviction details when the unit is evicted and the details are a
\* non-empty string, replaced by the failing tests when the latest test row
\* has testsPassed false.
failureReason(o, m, lmap, unitId, detailed) ==
    LET testOut == latest(o, unitId, "test")
    IN  IF testOut # None /\ ~testOut.testsPassed THEN "tests-failing"
        ELSE IF unitEvicted(m, lmap, unitId) /\ unitId \in detailed THEN "evicted"
        ELSE "did-not-complete"

\* A variant of reportFailed that keeps the evicted units only.
reportFailedEvictedOnly(units, m, lmap) ==
    SelectSeq(units, LAMBDA u : unitEvicted(m, lmap, u.id))

\* units.filter((u) => !unitLanded(u.id))
reportFailed(units, m, lmap) ==
    SelectSeq(units, LAMBDA u : ~unitLanded(m, lmap, u.id))

\* units.filter((u) => unitLanded(u.id))
reportLanded(units, m, lmap) ==
    SelectSeq(units, LAMBDA u : unitLanded(m, lmap, u.id))

\* The completion-report compute task.  The merge queue agent's eviction
\* details are free text: detailed is the set of units whose details are
\* not empty.
CompletionReport ==
    /\ loopPos.phase = "report"
    /\ \E detailed \in SUBSET {id \in UnitIds(workPlan) : unitEvicted(mq, unitLayerMap, id)} :
          LET landed == reportLanded(workPlan, mq, unitLayerMap)
              notLanded == reportFailed(workPlan, mq, unitLayerMap)
          IN  completion_report' =
                 [totalUnits |-> Len(workPlan),
                  unitsLanded |-> [n \in DOMAIN landed |-> landed[n].id],
                  unitsFailed |-> [n \in DOMAIN notLanded |->
                      [unitId |-> notLanded[n].id,
                       lastStage |-> lastStageOf(out, notLanded[n].id, 1),
                       reason |-> failureReason(out, mq, unitLayerMap,
                                                notLanded[n].id, detailed)]],
                  passesUsed |-> currentPass(pass_tracker) + 1]
    /\ loopPos' = [phase |-> "done", layer |-> 0]
    /\ UNCHANGED << plan, out, mq, pass_tracker, iteration, fin, run, failed,
                    tickets, everLanded, evictedIn, mqDone >>

\* ----------------------------------------------------------- a whole run

\* The state when the workflow is first rendered for a plan: an empty store.
InitRun(units, mc) ==
    /\ workPlan = units
    /\ maxConcurrency = mc
    /\ layers = computeLayers(units)
    /\ unitLayerMap = unitLayerMapOf(computeLayers(units))
    /\ out = [u \in UnitIds(units) |-> [s \in StageNames |-> None]]
    /\ mq = [k \in 0..(Len(computeLayers(units)) - 1) |-> None]
    /\ pass_tracker = None
    /\ completion_report = None
    /\ iteration = 0
    /\ loopPos = [phase |-> "ralph", layer |-> 0]
    /\ fin = [u \in UnitIds(units) |-> {}]
    /\ run = [u \in UnitIds(units) |-> {}]
    /\ failed = [u \in UnitIds(units) |-> {}]
    /\ tickets = {}
    /\ everLanded = {}
    /\ evictedIn = [u \in UnitIds(units) |-> -1]
    /\ mqDone = {}
    /\ verdict = None

Init == \E r \in Runs : InitRun(r[1], r[2])

Next ==
    \/ \E uid \in DOMAIN run, s \in StageNames : StageSchedule(uid, s)
    \/ \E uid \in DOMAIN run, s \in StageNames : StageFinish(uid, s)
    \/ \E uid \in DOMAIN run, s \in StageNames : StageFail(uid, s)
    \/ LandingStart
    \/ LandingSkip
    \/ LandingFinish
    \/ PassTracker
    \/ RalphIterate
    \/ RalphExit
    \/ CompletionReport

Spec == Init /\ [][Next]_vars

\* Some step of Next can be taken: the guards of its actions.  The loop and
\* the compute tasks are never blocked; a task in progress returns or fails.
canStep ==
    \/ loopPos.phase \in {"ralph", "landing", "tracker", "report"}
    \/ phaseOneOver
    \/ \E uid \in DOMAIN run : run[uid] # {}
    \/ \E uid \in DOMAIN run, s \in StageNames : canSchedule(uid, s)

\* ------------------------------------------------- the tier gate, alone

\* The rows a stage node may hold when the gate is evaluated: none yet, or
\* any row a worker can return.
\* A review row also has a severity, which the worker sets independently of
\* approved: of the enum critical, major, minor, none the model keeps none
\* and major.
storedRows(s) ==
    IF s \in {"prd-review", "code-review"}
    THEN {None} \cup {[approved |-> a, feedback |-> << "f" >>, severity |-> v] :
                        a \in BOOLEAN, v \in {"none", "major"}}
    ELSE {None} \cup stageRows(s, 0)

\* The skipIf of review-fix in the generated workflow: both reviews have
\* severity none (the prd-review only where the tier has it).
skipIfGenerated(o, tier, uid) ==
    LET prdReview == latest(o, uid, "prd-review")
        codeReview == latest(o, uid, "code-review")
    IN  /\ \/ (prdReview # None /\ prdReview.severity = "none")
           \/ ~tierHasStep(tier, "prd-review")
        /\ codeReview # None /\ codeReview.severity = "none"

\* The workflow's derived values for a plan of one unit, with any rows in
\* the store.
InitTierOf(units) ==
    /\ workPlan = units
    /\ maxConcurrency = 1
    /\ layers = computeLayers(units)
    /\ unitLayerMap = unitLayerMapOf(computeLayers(units))
    /\ \E re \in storedRows("research"), pl \in storedRows("plan"),
          im \in storedRows("implement"), te \in storedRows("test"),
          pr \in storedRows("prd-review"), cr \in storedRows("code-review"),
          rf \in storedRows("review-fix"), fr \in storedRows("final-review") :
          out = [u \in {"u"} |->
                   [s \in StageNames |->
                      CASE s = "research" -> re
                        [] s = "plan" -> pl
                        [] s = "implement" -> im
                        [] s = "test" -> te
                        [] s = "prd-review" -> pr
                        [] s = "code-review" -> cr
                        [] s = "review-fix" -> rf
                        [] OTHER -> fr]]
    /\ mq = [k \in {0} |-> None]
    /\ pass_tracker = None
    /\ completion_report = None
    /\ iteration = 0
    /\ loopPos = [phase |-> "tier", layer |-> 0]
    /\ fin = [u \in {"u"} |-> {}]
    /\ run = [u \in {"u"} |-> {}]
    /\ failed = [u \in {"u"} |-> {}]
    /\ tickets = {}
    /\ everLanded = {}
    /\ evictedIn = [u \in {"u"} |-> -1]
    /\ mqDone = {}
    /\ verdict = None

\* One unit of any tier, or of a tier name the table does not have (a plan
\* file is not validated when it is run).
InitTier == \E t \in TierNames \cup {"huge"} : InitTierOf(<< Unit("u", << >>, t) >>)

\* tierComplete(ctx, units, unitId) is called, for the unit of the plan or
\* for an id the plan does not hold.
EvalTier(unitId) ==
    /\ loopPos.phase = "tier"
    /\ verdict = None
    /\ verdict' = [unitId |-> unitId, complete |-> tierComplete(out, workPlan, unitId)]
    /\ UNCHANGED << workPlan, maxConcurrency, layers, unitLayerMap, out, mq,
                    pass_tracker, completion_report, iteration, loopPos, fin, run,
                    failed, tickets, everLanded, evictedIn, mqDone >>

NextTier == \E unitId \in {"u", "ghost"} : EvalTier(unitId)

SpecTier == InitTier /\ [][NextTier]_vars

\* ------------------------------------------------- validation and layering

\* The greatest number of deps of a generated unit.
MaxDeps == 2

\* The ids of the generated units, and an id that names no unit.
DagIds == << "a", "b", "c" >>

DepIds == Range(DagIds) \cup {"x"}

\* The deps lists of generated units: lists without repetition.
DepLists ==
    {d \in UNION {[1..n -> DepIds] : n \in 0..MaxDeps} :
        \A i, j \in DOMAIN d : i # j => d[i] # d[j]}

\* The unit list with the first Len(ds) ids and the deps lists ds: unique
\* ids, any deps.
unitList(ds) == [i \in DOMAIN ds |-> Unit(DagIds[i], ds[i], "small")]

\* An error of validateDAG: the message's kind and the two ids it quotes.
DagError(k, u, d) == [kind |-> k, unit |-> u, dep |-> d]

\* A variant of the first loop that reports nothing.
unknownErrorsNone(units, n, k) == << >>

\* The first loop of validateDAG: one error per (unit, dep) with dep not in
\* ids, in unit order and, per unit, in deps order.
RECURSIVE unknownErrors(_, _, _)
unknownErrors(units, n, k) ==
    IF n > Len(units) THEN << >>
    ELSE IF k > Len(units[n].deps) THEN unknownErrors(units, n + 1, 1)
    ELSE IF units[n].deps[k] \notin UnitIds(units)
         THEN << DagError("unknown", units[n].id, units[n].deps[k]) >>
                  \o unknownErrors(units, n, k + 1)
         ELSE unknownErrors(units, n, k + 1)

\* dfs(id) of validateDAG on the state st = [visited, inStack, errors], with
\* the returned boolean in st.ret.  A return of true leaves id in inStack.
RECURSIVE dfs(_, _, _)
RECURSIVE dfsDeps(_, _, _, _, _)
RECURSIVE dfsVisitedFirst(_, _, _)

\* A variant of dfs that tests visited before inStack.
dfsVisitedFirst(units, id, st) ==
    IF id \in st.visited THEN [st EXCEPT !.ret = FALSE]
    ELSE IF id \in st.inStack THEN [st EXCEPT !.ret = TRUE]
    ELSE LET st1 == [st EXCEPT !.visited = @ \cup {id}, !.inStack = @ \cup {id}]
             unit == findUnit(units, id)
         IN  IF unit = None
             THEN [st1 EXCEPT !.inStack = @ \ {id}, !.ret = FALSE]
             ELSE dfsDeps(units, id, unit.deps, 1, st1)

dfs(units, id, st) ==
    IF id \in st.inStack THEN [st EXCEPT !.ret = TRUE]
    ELSE IF id \in st.visited THEN [st EXCEPT !.ret = FALSE]
    ELSE LET st1 == [st EXCEPT !.visited = @ \cup {id}, !.inStack = @ \cup {id}]
             unit == findUnit(units, id)
         IN  IF unit = None
             THEN [st1 EXCEPT !.inStack = @ \ {id}, !.ret = FALSE]
             ELSE dfsDeps(units, id, unit.deps, 1, st1)

\* The loop over unit.deps inside dfs(id), from the k-th dep on.
dfsDeps(units, id, deps, k, st) ==
    IF k > Len(deps) THEN [st EXCEPT !.inStack = @ \ {id}, !.ret = FALSE]
    ELSE LET r == dfs(units, deps[k], st)
         IN  IF r.ret
             THEN [r EXCEPT !.errors = Append(@, DagError("cycle", id, deps[k])),
                            !.ret = TRUE]
             ELSE dfsDeps(units, id, deps, k + 1, r)

\* for (const unit of units) dfs(unit.id), from the n-th unit on.
RECURSIVE dfsAll(_, _, _)
dfsAll(units, n, st) ==
    IF n > Len(units) THEN st
    ELSE dfsAll(units, n + 1, dfs(units, units[n].id, st))

validateDAG(units) ==
    LET st == dfsAll(units, 1, [visited |-> {}, inStack |-> {},
                                errors |-> unknownErrors(units, 1, 1), ret |-> FALSE])
    IN  [valid |-> Len(st.errors) = 0, errors |-> st.errors]

\* The ids reached from the ids of S along deps of units of the list.
RECURSIVE depClosure(_, _)
depClosure(units, S) ==
    LET more == S \cup UNION {Range(units[n].deps) : n \in {m \in DOMAIN units : units[m].id \in S}}
    IN  IF more = S THEN S ELSE depClosure(units, more)

\* The ids reached from id along one or more deps edges.
reachFrom(units, id) ==
    LET unit == findUnit(units, id)
    IN  IF unit = None THEN {} ELSE depClosure(units, Range(unit.deps))

\* getLayer has no guard against an id met again below itself: on a list
\* with a unit on a dependency cycle the recursion never returns and the
\* call ends in the engine's stack overflow.
getLayerDiverges(units) == \E id \in UnitIds(units) : id \in reachFrom(units, id)

\* decomposeRFC after the AI call: an empty list is rejected, then the list
\* is validated and rejected if validation fails.
ValidateUnits ==
    /\ loopPos.phase = "units"
    /\ IF Len(workPlan) = 0
       THEN /\ loopPos' = [loopPos EXCEPT !.phase = "rejected"]
            /\ UNCHANGED verdict
       ELSE /\ verdict' = validateDAG(workPlan)
            /\ loopPos' = [loopPos EXCEPT !.phase =
                              IF validateDAG(workPlan).valid THEN "validated" ELSE "rejected"]
    /\ UNCHANGED << workPlan, maxConcurrency, layers, unitLayerMap, out, mq,
                    pass_tracker, completion_report, iteration, fin, run,
                    failed, tickets, everLanded, evictedIn, mqDone >>

\* decomposeRFC's computeLayers(units) on the validated list.
LayerValidated ==
    /\ loopPos.phase = "validated"
    /\ layers' = computeLayers(workPlan)
    /\ loopPos' = [loopPos EXCEPT !.phase = "decomposed"]
    /\ UNCHANGED << workPlan, maxConcurrency, unitLayerMap, out, mq,
                    pass_tracker, completion_report, iteration, fin, run,
                    failed, tickets, everLanded, evictedIn, mqDone, verdict >>

\* ralphinho run: the stored work plan is parsed and the workflow calls
\* computeLayers(units) on it.
RenderWorkflow ==
    /\ loopPos.phase = "units"
    /\ IF getLayerDiverges(workPlan)
       THEN /\ loopPos' = [loopPos EXCEPT !.phase = "overflow"]
            /\ UNCHANGED layers
       ELSE /\ layers' = computeLayers(workPlan)
            /\ loopPos' = [loopPos EXCEPT !.phase = "rendered"]
    /\ UNCHANGED << workPlan, maxConcurrency, unitLayerMap, out, mq,
                    pass_tracker, completion_report, iteration, fin, run,
                    failed, tickets, everLanded, evictedIn, mqDone, verdict >>

\* A unit list as the AI returned it or as work-plan.json holds it.
InitDag ==
    /\ \E n \in 0..Len(DagIds) : \E ds \in [1..n -> DepLists] : workPlan = unitList(ds)
    /\ maxConcurrency = 1
    /\ layers = << >>
    /\ unitLayerMap = << >>
    /\ out = << >>
    /\ mq = << >>
    /\ pass_tracker = None
    /\ completion_report = None
    /\ iteration = 0
    /\ loopPos = [phase |-> "units", layer |-> 0]
    /\ fin = << >>
    /\ run = << >>
    /\ failed = << >>
    /\ tickets = {}
    /\ everLanded = {}
    /\ evictedIn = << >>
    /\ mqDone = {}
    /\ verdict = None

NextDag == ValidateUnits \/ LayerValidated \/ RenderWorkflow

SpecDag == InitDag /\ [][NextDag]_vars

\* ------------------------------------------------------------ properties

\* unit?.tier ?? "large", for the id a verdict is about.
gateTier(unitId) ==
    LET unit == findUnit(workPlan, unitId)
    IN  IF unit = None THEN "large" ELSE unit.tier

testGate(unitId) ==
    LET test == latest(out, unitId, "test")
    IN  test # None /\ test.buildPassed /\ test.testsPassed

approvedBy(unitId, stage) ==
    LET r == latest(out, unitId, stage) IN r # None /\ r.approved

issuesResolved(unitId) ==
    LET r == latest(out, unitId, "review-fix") IN r # None /\ r.allIssuesResolved

readyToMoveOn(unitId) ==
    LET r == latest(out, unitId, "final-review") IN r # None /\ r.readyToMoveOn

mediumGate(unitId) ==
    /\ testGate(unitId)
    /\ \/ approvedBy(unitId, "prd-review") /\ approvedBy(unitId, "code-review")
       \/ issuesResolved(unitId)

depsOf(unitId) == Range(findUnit(workPlan, unitId).deps)

\* C1: landing monotonicity.  Once a unit id has appeared in a landed list of
\* its layer, the unit is never a ticket of a merge queue invocation again (so
\* it is in no later evicted or skipped list) and no stage of its pipeline
\* runs again.
C1_LandedNeverReentered ==
    \A u \in everLanded : u \notin tickets /\ run[u] = {}

\* C2: at every render a unit is treated as landed iff its id appeared in the
\* landed list of some merge queue row appended so far for its layer.
C2_LandedIffEverLanded ==
    \A u \in UnitIds(workPlan) :
        unitLanded(mq, unitLayerMap, u) <=> u \in everLanded

\* C3: re-admission guard.  A ticket offered to the merge queue that was
\* evicted before has a test row written in an iteration after the one of its
\* last eviction, and that row reports build and tests passing.
C3_ReadmissionGuard ==
    \A u \in tickets :
        evictedIn[u] >= 0 =>
            LET test == latest(out, u, "test")
            IN  test # None /\ test.it > evictedIn[u]
                /\ test.buildPassed /\ test.testsPassed

\* C4: no stage of a unit's pipeline is in progress unless every unit named
\* in its deps has landed.
C4_DepsLandedBeforeStart ==
    \A u \in DOMAIN run :
        run[u] # {} => depsOf(u) \subseteq everLanded

\* C5: within a pass the layers run strictly in order.  While the merge queue
\* of a layer runs no pipeline task is in progress and every rendered pipeline
\* of the layer has finished or failed; a unit has started a stage in this
\* pass only if the merge queue of every earlier layer is over for this pass,
\* and none is in progress once the merge queue of its own layer is over.
C5_LayersSequential ==
    /\ loopPos.phase = "landing" =>
          /\ \A u \in DOMAIN run : run[u] = {}
          /\ \A n \in DOMAIN layerAt(loopPos.layer) :
                LET u == layerAt(loopPos.layer)[n].id
                IN  \/ unitLanded(mq, unitLayerMap, u)
                    \/ \E s \in failed[u] : s \notin {"prd-review", "code-review"}
                    \/ pipelineTasks(tierOf(u)) \subseteq fin[u]
    /\ \A u \in DOMAIN run :
          /\ (run[u] # {} \/ fin[u] # {} \/ failed[u] # {}) =>
                \A k \in 0..(unitLayerMap[u] - 1) : k \in mqDone
          /\ run[u] # {} => unitLayerMap[u] \notin mqDone

C5_Witness ==
    \E u \in DOMAIN run :
        unitLayerMap[u] = 1 /\ run[u] # {} /\ 0 \in mqDone /\ iteration = 1

\* The steps of a stage task not yet taken in this iteration: two for a task
\* not started, one for a task in progress.
tasksLeft ==
    2 * Cardinality({us \in (DOMAIN run) \X StageNames :
                        us[2] \notin fin[us[1]] \cup failed[us[1]] \cup run[us[1]]})
    + Cardinality({us \in (DOMAIN run) \X StageNames : us[2] \in run[us[1]]})

\* The steps of the loop body still ahead of a position in the iteration.
posLeft ==
    CASE loopPos.phase = "ralph" -> 2 * Len(layers) + 4
      [] loopPos.phase = "pipelines" -> 2 * (Len(layers) - loopPos.layer) + 3
      [] loopPos.phase = "landing" -> 2 * (Len(layers) - loopPos.layer) + 2
      [] loopPos.phase = "tracker" -> 2
      [] loopPos.phase = "report" -> 1
      [] OTHER -> 0

\* More than the steps of one whole iteration.
passWidth == 2 * Len(layers) + 5 + 2 * Cardinality((DOMAIN run) \X StageNames)

\* A bound on the steps a run still has to take: every step lowers it.
Rank == (maxPasses + 1 - iteration) * passWidth + posLeft + tasksLeft

\* C6: bounded retry.  The pass counter equals the number of passes done and
\* never exceeds maxPasses, a pass runs only while fewer than maxPasses are
\* done, each pass-tracker row raises the counter by exactly one, and the run
\* terminates: a run that is not over can always take a step, and every step
\* lowers a natural-number bound on the steps still to take.
C6_BoundedRetry ==
    /\ [](/\ currentPass(pass_tracker) = iteration
          /\ iteration <= maxPasses
          /\ loopPos.phase \in {"pipelines", "landing", "tracker"} => iteration < maxPasses
          /\ Rank >= 0
          /\ loopPos.phase = "done" \/ canStep)
    /\ [][/\ pass_tracker' # pass_tracker =>
                currentPass(pass_tracker') = currentPass(pass_tracker) + 1
          /\ Rank' < Rank]_vars

C6_Witness ==
    /\ loopPos.phase = "done"
    /\ iteration = maxPasses
    /\ \E u \in DOMAIN evictedIn : u \notin everLanded /\ evictedIn[u] = maxPasses - 1

\* C7: after each pass the loop stops iff the pass counter has reached
\* maxPasses or every unit has landed.
C7_StopsIffDone ==
    [][/\ (loopPos.phase = "ralph" /\ loopPos'.phase = "pipelines") =>
             ~(currentPass(pass_tracker) >= maxPasses
               \/ UnitIds(workPlan) \subseteq everLanded)
       /\ (loopPos.phase = "ralph" /\ loopPos'.phase = "report") =>
             (currentPass(pass_tracker) >= maxPasses
              \/ UnitIds(workPlan) \subseteq everLanded)]_vars

\* C8 (as stated): a large unit is tier-complete iff the medium condition
\* holds on its latest rows and its latest final-review row is readyToMoveOn.
C8_LargeIsMediumAndFinal ==
    (verdict # None /\ gateTier(verdict.unitId) = "large") =>
        (verdict.complete <=>
            (mediumGate(verdict.unitId) /\ readyToMoveOn(verdict.unitId)))

\* C8 (amended): a large unit is tier-complete iff its latest test row
\* reports build and tests passing and its latest final-review row is
\* readyToMoveOn; the review and review-fix rows are not consulted.
C8_LargeIsTestAndFinal ==
    (verdict # None /\ gateTier(verdict.unitId) = "large") =>
        (verdict.complete <=>
            (testGate(verdict.unitId) /\ readyToMoveOn(verdict.unitId)))

C8_Witness ==
    /\ verdict # None
    /\ verdict.unitId = "u"
    /\ gateTier("u") = "large"
    /\ verdict.complete
    /\ ~mediumGate("u")

\* C9: a trivial unit is tier-complete iff its latest test row has
\* buildPassed and testsPassed; a small unit iff moreover its latest
\* code-review row is approved; a medium unit iff build and tests pass and
\* (prd-review and code-review approved, or review-fix allIssuesResolved); a
\* missing row counts as not passing, not approved, not resolved.
C9_TierGates ==
    verdict # None =>
        LET id == verdict.unitId
        IN  /\ gateTier(id) = "trivial" => (verdict.complete <=> testGate(id))
            /\ gateTier(id) = "small" =>
                  (verdict.complete <=> (testGate(id) /\ approvedBy(id, "code-review")))
            /\ gateTier(id) = "medium" => (verdict.complete <=> mediumGate(id))

C9_Witness ==
    /\ verdict # None
    /\ verdict.unitId = "u"
    /\ gateTier("u") = "small"
    /\ testGate("u")
    /\ latest(out, "u", "code-review") = None
    /\ ~verdict.complete

depsResolve(units) ==
    \A n \in DOMAIN units : Range(units[n].deps) \subseteq UnitIds(units)

\* No unit reaches itself along deps.
acyclic(units) == \A id \in UnitIds(units) : id \notin reachFrom(units, id)

\* The places << layer index, position >> at which the layers hold a unit id.
placesOf(id) ==
    {p \in UNION {{<< i - 1, m >> : m \in DOMAIN layers[i]} : i \in DOMAIN layers} :
        layers[p[1] + 1][p[2]].id = id}

layerIndexOf(id) == (CHOOSE p \in placesOf(id) : TRUE)[1]

layered == loopPos.phase \in {"decomposed", "rendered"}

\* C11: for a unit list with unique ids whose deps all name units of the
\* list and form no cycle, the layers computeLayers returns hold every unit
\* exactly once and nothing else, and every dep of a unit is in a layer of
\* strictly smaller index than the unit.
C11_LayersRespectDeps ==
    (layered /\ depsResolve(workPlan) /\ acyclic(workPlan)) =>
        /\ \A i \in DOMAIN layers : Range(layers[i]) \subseteq Range(workPlan)
        /\ \A n \in DOMAIN workPlan :
              /\ Cardinality(placesOf(workPlan[n].id)) = 1
              /\ \A d \in Range(workPlan[n].deps) :
                    layerIndexOf(d) < layerIndexOf(workPlan[n].id)

\* Three units in three layers, one of them with deps in two different layers.
C11_Witness ==
    /\ layered /\ depsResolve(workPlan) /\ acyclic(workPlan)
    /\ Len(layers) = 3
    /\ \E n \in DOMAIN workPlan : Len(workPlan[n].deps) = 2

\* validateDAG has returned for the list.
validated == verdict # None /\ loopPos.phase \in {"validated", "rejected", "decomposed"}

\* The edge (unit, dep) of an error is a deps edge that lies on a cycle: the
\* unit is reached back from its dep.
onCycle(e) ==
    /\ findUnit(workPlan, e.unit) # None
    /\ e.dep \in Range(findUnit(workPlan, e.unit).deps)
    /\ e.unit \in {e.dep} \cup reachFrom(workPlan, e.dep)

cycleErrors == {e \in Range(verdict.errors) : e.kind = "cycle"}

\* C12: for a unit list whose deps contain a cycle (a unit that depends on
\* itself included), validateDAG returns valid = false and at least one of
\* the cycle errors it reports names a deps edge that lies on a cycle.
C12_CycleReported ==
    (validated /\ ~acyclic(workPlan)) =>
        /\ ~verdict.valid
        /\ \E e \in cycleErrors : onCycle(e)

\* A cyclic list for which a second cycle error is reported, for an edge
\* that leads into the cycle without lying on it.
C12_Witness ==
    /\ validated /\ ~acyclic(workPlan)
    /\ \E e \in cycleErrors : onCycle(e)
    /\ \E e \in cycleErrors : ~onCycle(e)

\* The (unit, dep) pairs of the list whose dep names no unit of the list.
unknownPairs ==
    {p \in Range(DagIds) \X DepIds :
        /\ p[2] \notin UnitIds(workPlan)
        /\ \E n \in DOMAIN workPlan :
              workPlan[n].id = p[1] /\ p[2] \in Range(workPlan[n].deps)}

\* C13: validateDAG returns valid = true exactly when it returns no error,
\* and exactly when every dep of every unit names a unit of the list and
\* the deps are acyclic; the unknown-dependency errors it returns are one
\* for each (unit, dep) pair whose dep names no unit of the list.
C13_ValidIffResolvedAcyclic ==
    validated =>
        /\ verdict.valid <=> (verdict.errors = << >>)
        /\ verdict.valid <=> (depsResolve(workPlan) /\ acyclic(workPlan))
        /\ {<< e.unit, e.dep >> : e \in {x \in Range(verdict.errors) : x.kind = "unknown"}}
              = unknownPairs

\* An acyclic list with two unknown deps, rejected with two errors.
C13_Witness ==
    /\ validated /\ acyclic(workPlan) /\ ~verdict.valid
    /\ Cardinality(unknownPairs) = 2
    /\ Len(verdict.errors) = 2

\* computeLayers has been called on the list.
layeringAttempted == loopPos.phase \in {"decomposed", "rendered", "overflow"}

\* C14: fail fast on every path: computeLayers is called on a unit list
\* only if every dep of the list names a unit of the list and the deps are
\* acyclic, on the decomposition path and on the path that runs the
\* workflow from the stored work plan alike.
C14_LayeringOnlyOfValidLists ==
    layeringAttempted => (depsResolve(workPlan) /\ acyclic(workPlan))

\* The stage list of the unit's tier, as a set.
tierStages(uid) == Range(SCHEDULED_TIERS[tierOf(uid)])

\* C15: for every tier the pipeline renders only stage tasks of the tier's
\* stage list, and in every state of a run the stage tasks of a unit that
\* are in progress, finished, skipped or failed, and the stages the unit has
\* a record of, are all in the stage list of the unit's tier.
C15_OnlyTierStages ==
    /\ \A tier \in TierNames : pipelineTasks(tier) \subseteq Range(SCHEDULED_TIERS[tier])
    /\ \A u \in DOMAIN out :
          LET allowed == tierStages(u)
          IN  /\ (run[u] \cup fin[u] \cup failed[u]) \subseteq allowed
              /\ \A s \in StageNames \ allowed : out[u][s] = None

\* A small unit whose pipeline ran to its end in a second pass: the three
\* stages of its tier have records and no other stage has.
C15_Witness ==
    \E u \in DOMAIN out :
        /\ tierOf(u) = "small"
        /\ iteration = 1
        /\ fin[u] = {"implement", "test", "code-review"}
        /\ {s \in StageNames : out[u][s] # None} = {"implement", "test", "code-review"}

\* The position of a stage in a stage list.
stageIndex(list, stage) == CHOOSE k \in DOMAIN list : list[k] = stage

\* Every stage of list a is a stage of list b, and the stages of a come in
\* the order they have in b.
nestedIn(a, b) ==
    /\ Range(a) \subseteq Range(b)
    /\ \A i, j \in DOMAIN a :
          i < j => stageIndex(b, a[i]) < stageIndex(b, a[j])

\* The tiers from the smallest to the largest.
TierOrder == << "trivial", "small", "medium", "large" >>

\* C16: the stage lists are nested, trivial in small in medium in large:
\* the list of the unit's tier is contained in the list of every larger
\* tier and keeps the relative order its stages have there, the large list
\* being research, plan, implement, test, prd-review, code-review,
\* review-fix, final-review; tierHasStep answers by membership in the list.
C16_TiersNested ==
    tierOf("u") \in Range(TierOrder) =>
    LET t == stageIndex(TierOrder, tierOf("u"))
    IN  /\ \A t2 \in t..Len(TierOrder) :
              nestedIn(SCHEDULED_TIERS[TierOrder[t]], SCHEDULED_TIERS[TierOrder[t2]])
        /\ SCHEDULED_TIERS.large = StageOrder
        /\ \A s \in StageNames :
              tierHasStep(TierOrder[t], s) <=> s \in Range(SCHEDULED_TIERS[TierOrder[t]])

\* The gate of a small unit has been evaluated: small has code-review, which
\* trivial has not, and lacks review-fix, which medium has.
C16_Witness ==
    /\ loopPos.phase = "tier"
    /\ verdict # None
    /\ verdict.unitId = "u"
    /\ tierOf("u") = "small"
    /\ tierHasStep("small", "code-review") /\ ~tierHasStep("trivial", "code-review")
    /\ tierHasStep("medium", "review-fix") /\ ~tierHasStep("small", "review-fix")

\* C17: in every state of a run the number of units with a pipeline stage
\* in progress is at most maxConcurrency.
C17_ConcurrencyBound == Cardinality(runningUnits) <= maxConcurrency

\* With maxConcurrency = 1, one unit of the layer has a stage in progress
\* and the other, whose first stage is ready, waits.
C17_Witness ==
    /\ maxConcurrency = 1
    /\ {"a", "b"} \subseteq DOMAIN run
    /\ unitLayerMap["a"] = unitLayerMap["b"]
    /\ run["a"] # {}
    /\ run["b"] = {} /\ fin["b"] = {} /\ failed["b"] = {}
    /\ stageReady("b", "implement")
    /\ ~canSchedule("b", "implement")

\* No pipeline stage of any unit is in progress.
noStageRunning == \A u \in DOMAIN run : run[u] = {}

\* C18: single-writer mainline: while the landing worker of a layer is
\* active no pipeline stage of any unit is in progress and its tickets are
\* units of that one layer; the landed sets and the merge-queue records
\* change only in a step that ends a landing invocation, with no stage in
\* progress, and that step writes the record of its own layer only.
C18_SingleWriter ==
    /\ [](loopPos.phase = "landing" =>
            /\ noStageRunning
            /\ tickets \subseteq UnitIds(layerAt(loopPos.layer)))
    /\ [][(everLanded' # everLanded \/ mq' # mq) =>
            /\ loopPos.phase = "landing"
            /\ loopPos'.phase # "landing"
            /\ noStageRunning
            /\ everLanded' \ everLanded \subseteq tickets
            /\ \A k \in DOMAIN mq : k # loopPos.layer => mq'[k] = mq[k]]_vars

\* The landing worker of the second layer is active with a ticket, after the
\* landing worker of the first layer has landed a unit.
C18_Witness ==
    /\ loopPos.phase = "landing"
    /\ loopPos.layer = 1
    /\ tickets # {}
    /\ everLanded # {}

\* The loop has ended and the completion report is written.
reported == loopPos.phase = "done" /\ completion_report # None

failedIds == {completion_report.unitsFailed[n].unitId : n \in DOMAIN completion_report.unitsFailed}

\* C19: no silent drop: in the completion report the landed ids and the
\* ids of the failed units are disjoint, together they are the ids of the
\* work plan, totalUnits is the sum of the two lists' lengths, and every
\* unit that is not landed when the loop ends is in unitsFailed with a
\* lastStage and a reason.
C19_NoSilentDrop ==
    reported =>
        /\ Range(completion_report.unitsLanded) \cap failedIds = {}
        /\ Range(completion_report.unitsLanded) \cup failedIds = UnitIds(workPlan)
        /\ completion_report.totalUnits =
              Len(completion_report.unitsLanded) + Len(completion_report.unitsFailed)
        /\ UnitIds(workPlan) \ everLanded \subseteq failedIds
        /\ \A id \in UnitIds(workPlan) :
              ~unitLanded(mq, unitLayerMap, id) =>
                 \E n \in DOMAIN completion_report.unitsFailed :
                    LET f == completion_report.unitsFailed[n]
                    IN  /\ f.unitId = id
                        /\ f.lastStage \in StageNames \cup {"not-started"}
                        /\ f.reason \in {"did-not-complete", "evicted", "tests-failing"}

\* A report after the last pass with one unit landed and one failed that
\* was never evicted and whose tests pass.
C19_Witness ==
    /\ reported
    /\ currentPass(pass_tracker) = maxPasses
    /\ Len(completion_report.unitsLanded) = 1
    /\ Len(completion_report.unitsFailed) = 1
    /\ completion_report.unitsFailed[1].reason = "did-not-complete"

\* The stages of which the store holds a record of the unit, from any pass.
recordedStages(unitId) == {s \in StageNames : out[unitId][s] # None}

\* C20: when the run ends by pass exhaustion it ends with a completion
\* report, and the lastStage of every failed unit is "not-started" if no
\* stage of the unit ever produced a record, and else a stage that has a
\* record of the unit and is the last such stage in pipeline order: no
\* stage at a later position of the pipeline has a record of the unit.
C20_LastStageReached ==
    /\ (loopPos.phase = "done" /\ currentPass(pass_tracker) >= maxPasses) =>
          completion_report # None
    /\ reported =>
          \A n \in DOMAIN completion_report.unitsFailed :
             LET f == completion_report.unitsFailed[n]
             IN  IF recordedStages(f.unitId) = {}
                 THEN f.lastStage = "not-started"
                 ELSE /\ f.lastStage \in recordedStages(f.unitId)
                      /\ \A s \in recordedStages(f.unitId) : slot(s) <= slot(f.lastStage)

\* A run ended by pass exhaustion with two failed units: one never produced
\* a record, the other got as far as its tests.
C20_Witness ==
    /\ reported
    /\ currentPass(pass_tracker) = maxPasses
    /\ Len(completion_report.unitsFailed) = 2
    /\ completion_report.unitsFailed[1].lastStage = "test"
    /\ completion_report.unitsFailed[2].lastStage = "not-started"

\* The unit was evicted by the landing worker in the iteration before this
\* one.
evictedLastPass(u) == iteration >= 1 /\ evictedIn[u] = iteration - 1

\* C21: if the landing worker's record of a pass lists a unit as evicted
\* with details D and the pass is not the last one, the loop goes on to the
\* next pass, the unit's pipeline is rendered in it until the layer's
\* landing worker has run again, and the implement task of the unit is
\* started in that pass with D as its evictionContext.
C21_EvictionDetailSurfaced ==
    /\ [](\A u \in DOMAIN run :
            /\ (loopPos.phase = "ralph" /\ evictedLastPass(u) /\ iteration < maxPasses) =>
                  ~done(pass_tracker, mq, unitLayerMap, workPlan)
            /\ (loopPos.phase \in {"pipelines", "landing"} /\ evictedLastPass(u)
                   /\ unitLayerMap[u] \notin mqDone) =>
                  /\ pipelineRendered(u)
                  /\ getEvictionContext(mq, unitLayerMap, u) = EvictionDetail(u, iteration - 1))
    /\ [][\A u \in DOMAIN run :
            ("implement" \in run'[u] \ run[u] /\ evictedLastPass(u)) =>
               implementInput(out, mq, unitLayerMap, u).evictionContext
                  = EvictionDetail(u, iteration - 1)]_vars

\* In the third pass the implement task of a unit evicted in the second pass
\* is in progress.
C21_Witness ==
    \E u \in DOMAIN run :
        /\ iteration = 2
        /\ evictedIn[u] = 1
        /\ "implement" \in run[u]

\* Text r occurs in text t as a run of consecutive characters.
contains(t, r) ==
    \E i \in 0..(Len(t) - Len(r)) : SubSeq(t, i + 1, i + Len(r)) = r

\* A prop that is undefined puts no text into the prompt.
textOf(x) == IF x = None THEN << >> ELSE x

\* The implement task of a large unit is started in this step, in a pass
\* after the first, while the unit's latest final-review record is not
\* ready to move on.
implementAfterRejection(u) ==
    /\ iteration >= 1
    /\ tierOf(u) = "large"
    /\ "implement" \in run'[u] \ run[u]
    /\ out[u]["final-review"] # None
    /\ ~out[u]["final-review"].readyToMoveOn

\* C22 as stated: when the final-review record of a large unit has
\* readyToMoveOn = false and reasoning R, the reviewFeedback given to the
\* unit's implement task in the next pass contains R character for
\* character.
C22_ReasoningVerbatim ==
    [][\A u \in DOMAIN run :
          implementAfterRejection(u) =>
             contains(textOf(implementInput(out, mq, unitLayerMap, u).reviewFeedback),
                      out[u]["final-review"].reasoning)]_vars

\* C22 amended: the reviewFeedback contains R up to the white space R ends
\* with: for a non-empty R it contains the label "Final review feedback:",
\* a line feed and R without its trailing white space.
C22_ReasoningTrimmed ==
    [][\A u \in DOMAIN run :
          (implementAfterRejection(u) /\ out[u]["final-review"].reasoning # << >>) =>
             contains(textOf(implementInput(out, mq, unitLayerMap, u).reviewFeedback),
                      << "Final review feedback:", "\n" >>
                         \o trimEnd(out[u]["final-review"].reasoning))]_vars

\* The implement task of a large unit is in progress in the second pass and
\* the final review of the first pass rejected the unit with a reasoning
\* that ends in white space.
C22_Witness ==
    \E u \in DOMAIN run :
        /\ tierOf(u) = "large"
        /\ iteration = 1
        /\ "implement" \in run[u]
        /\ out[u]["final-review"] # None
        /\ ~out[u]["final-review"].readyToMoveOn
        /\ out[u]["final-review"].reasoning = << "r", " " >>

\* What a render reads: the work plan with its layers, the output store and
\* the iteration number.
renderInputs == << workPlan, layers, unitLayerMap, out, mq, pass_tracker, iteration >>

\* What a render derives: the landed and the evicted units, the eviction
\* details, the tier-complete units, the landing candidates of every layer,
\* the units whose pipeline is rendered, and done.
renderDerivation ==
    [landed |-> {u \in UnitIds(workPlan) : unitLanded(mq, unitLayerMap, u)},
     evicted |-> {u \in UnitIds(workPlan) : unitEvicted(mq, unitLayerMap, u)},
     evictionContext |-> [u \in UnitIds(workPlan) |-> getEvictionContext(mq, unitLayerMap, u)],
     tierComplete |-> {u \in UnitIds(workPlan) : tierComplete(out, workPlan, u)},
     tickets |-> [k \in 0..lastLayer |->
                    buildMergeTickets(out, mq, unitLayerMap, workPlan, layerAt(k), iteration)],
     rendered |-> {u \in UnitIds(workPlan) : pipelineRendered(u)},
     done |-> done(pass_tracker, mq, unitLayerMap, workPlan)]

landingRows == {mq[k] : k \in {j \in DOMAIN mq : mq[j] # None}}

landingLayerIds == UnitIds(layerAt(loopPos.layer))

\* The gate of an offered unit on the records that are latest at the start
\* of the merge queue: of the layer, tier-complete, latest test row passing.
offeredOnLatest(u) ==
    /\ u \in landingLayerIds
    /\ tierComplete(out, workPlan, u)
    /\ Flag(latest(out, u, "test"), "testsPassed")
    /\ Flag(latest(out, u, "test"), "buildPassed")

\* C25: every unit offered to the merge queue of layer n belongs to layer n,
\* is in no landed list of an earlier row of its layer, and is tier-complete
\* with a passing latest test row when the merge queue starts.
C25_OfferedGate ==
    loopPos.phase = "landing" =>
        \A u \in tickets : offeredOnLatest(u) /\ u \notin everLanded

\* The part of C25 that reads the latest rows only: an offered unit is of the
\* layer, tier-complete with a passing latest test row, and not landed by the
\* latest row of its layer.
C25_OfferedOnLatestRows ==
    loopPos.phase = "landing" =>
        \A u \in tickets : offeredOnLatest(u) /\ ~unitLanded(mq, unitLayerMap, u)

\* C26: in every pass every layer gets exactly one merge queue row: the
\* phase 2 of a layer is over only by the step that appends the row of the
\* landing worker, once per layer and pass, and the pass tracker runs only
\* when phase 2 of every layer is over.
C26_OneRowPerLayerAndPass ==
    /\ [](loopPos.phase = "tracker" => mqDone = 0..lastLayer)
    /\ [][\A k \in 0..lastLayer :
            (k \notin mqDone /\ k \in mqDone') =>
               /\ loopPos.phase = "landing"
               /\ loopPos.layer = k
               /\ mq'[k] # None
               /\ DOMAIN mq'[k].found = tickets]_vars

\* The part of C26 that holds: a layer gets at most one row in a pass, and a
\* layer with landing candidates gets one.
C26_AtMostOneRow ==
    [][/\ (loopPos.phase = "landing" /\ loopPos'.phase # "landing") =>
            /\ loopPos.layer \notin mqDone
            /\ loopPos.layer \in mqDone'
            /\ DOMAIN mq'[loopPos.layer].found = tickets
       /\ \A k \in 0..lastLayer :
            (k \notin mqDone /\ k \in mqDone' /\ loopPos.phase # "landing") =>
               buildMergeTickets(out, mq, unitLayerMap, workPlan,
                                 layerAt(k), iteration) = {}]_vars

\* C27: the passesUsed of the completion report is the final value of the
\* pass counter, the number of passes the loop executed, and is at most
\* maxPasses.
C27_PassesUsed ==
    reported =>
        /\ completion_report.passesUsed = currentPass(pass_tracker)
        /\ completion_report.passesUsed = iteration
        /\ completion_report.passesUsed <= maxPasses

\* What holds of passesUsed: it is one more than the final value of the pass
\* counter, which counts the passes executed and is at most maxPasses.
C27_PassesUsedOneMore ==
    reported =>
        /\ completion_report.passesUsed = currentPass(pass_tracker) + 1
        /\ currentPass(pass_tracker) = iteration
        /\ currentPass(pass_tracker) <= maxPasses

\* The loop is over: the tree is at the completion report or past it.
loopOver == loopPos.phase \in {"report", "done"}

\* The completion report is written once, by the step that follows the end
\* of the loop, and nothing runs or is written after it or between the end
\* of the loop and it.
reportOnceAfterLoop ==
    /\ [](/\ ~reported => completion_report = None
          /\ loopOver => runningUnits = {} /\ tickets = {}
          /\ loopOver => done(pass_tracker, mq, unitLayerMap, workPlan)
                            \/ iteration >= maxIterations)
    /\ [][/\ completion_report' # completion_report =>
                loopPos.phase = "report" /\ loopPos'.phase = "done"
          /\ loopPos.phase = "report" =>
                << out, mq, pass_tracker, iteration >>' = << out, mq, pass_tracker, iteration >>
          /\ loopPos.phase # "done"]_vars

\* C28: the completion report is written exactly once, after the last pass
\* of the loop and never while the loop is active, and its landed list is
\* the set of units landed when the loop ended: the units in the landed list
\* of some merge queue row.
C28_ReportOnceAfterLoop ==
    /\ reportOnceAfterLoop
    /\ [](reported => Range(completion_report.unitsLanded) = everLanded)

\* The part of C28 that holds: written once, after the loop, with the units
\* that the latest merge queue rows list as landed when the loop ended.
C28_ReportOnceLatestRows ==
    /\ reportOnceAfterLoop
    /\ [](reported => Range(completion_report.unitsLanded) =
                         {u \in UnitIds(workPlan) : unitLanded(mq, unitLayerMap, u)})

\* The review stages that apply to the unit's tier.
reviewsOf(u) == {"prd-review", "code-review"} \cap pipelineTasks(tierOf(u))

\* Every review that applies to the unit has a latest row, and it approves.
reviewsApprove(u) ==
    \A s \in reviewsOf(u) : out[u][s] # None /\ out[u][s].approved

\* The step passes over review-fix without starting it.
reviewFixSkips(u) ==
    /\ "review-fix" \notin fin[u] \cup run[u]
    /\ "review-fix" \in fin'[u]
    /\ "review-fix" \notin run'[u]

\* The step starts review-fix.
reviewFixStarts(u) == "review-fix" \notin run[u] /\ "review-fix" \in run'[u]

passingRow(s, row) ==
    CASE s = "test" -> row.buildPassed /\ row.testsPassed
      [] s \in {"prd-review", "code-review"} -> row.approved
      [] s = "review-fix" -> row.allIssuesResolved
      [] s = "final-review" -> row.readyToMoveOn
      [] OTHER -> TRUE

\* The worker returns a passing row.
StageFinishPassing(uid, s) ==
    /\ StageFinish(uid, s)
    /\ passingRow(s, out'[uid][s])

\* The landing worker lands every ticket it is offered.
LandingFinishAll ==
    /\ LandingFinish
    /\ mq'[loopPos.layer].ticketsLanded = tickets

\* The steps of a run in which no stage task fails, every row passes and
\* every ticket is landed.
NextPassing ==
    \/ \E uid \in DOMAIN run, s \in StageNames : StageSchedule(uid, s)
    \/ \E uid \in DOMAIN run, s \in StageNames : StageFinishPassing(uid, s)
    \/ LandingStart
    \/ LandingFinishAll
    \/ PassTracker
    \/ RalphIterate
    \/ RalphExit
    \/ CompletionReport

\* The engine goes on scheduling while a task can be scheduled or can return.
SpecPassing == Init /\ [][NextPassing]_vars /\ WF_vars(NextPassing)

\* C30: convergence: in a run in which every stage task returns a passing
\* row and the landing worker lands every ticket, the loop ends, it ends
\* after at most two passes, and every unit is landed when it ends: landed
\* on the latest rows, and listed as landed in the completion report.
C30_Convergence ==
    /\ <>reported
    /\ [](loopOver =>
            /\ iteration <= 2
            /\ \A u \in UnitIds(workPlan) : unitLanded(mq, unitLayerMap, u))
    /\ [](reported => Range(completion_report.unitsLanded) = UnitIds(workPlan))

\* A plan of two layers has been run to its report with both units landed.
C30_Witness ==
    /\ reported
    /\ Len(layers) = 2
    /\ Range(completion_report.unitsLanded) = UnitIds(workPlan)
    /\ iteration <= 2

\* Stage q comes before stage s in the order research, plan, implement,
\* test, the two reviews, review-fix, final-review; the two reviews do not
\* precede one another.
comesBefore(q, s) ==
    /\ stageIndex(StageOrder, q) < stageIndex(StageOrder, s)
    /\ {q, s} # {"prd-review", "code-review"}

\* C31: within one unit and one pass no stage task starts, and review-fix is
\* not passed over, before every earlier stage of the unit's tier is over in
\* that pass (returned, failed with continueOnFail, or skipped) and none of
\* them is in progress; only prd-review and code-review may overlap.
C31_StageOrder ==
    /\ [][\A u \in DOMAIN run : \A s \in StageNames :
            (s \notin run[u] \cup fin[u] /\ s \in run'[u] \cup fin'[u]) =>
               \A q \in pipelineTasks(tierOf(u)) :
                  comesBefore(q, s) => q \in fin[u] /\ q \notin run[u]]_vars
    /\ [](\A u \in DOMAIN run : \A s, q \in run[u] :
            s = q \/ {s, q} = {"prd-review", "code-review"})

\* The two reviews of the large unit are in progress together, after its
\* test has returned in this pass.
C31_Witness ==
    /\ "l" \in DOMAIN run
    /\ run["l"] = {"prd-review", "code-review"}
    /\ {"research", "plan", "implement", "test"} \subseteq fin["l"]

\* The reference layering, computed round by round instead of by recursion:
\* after round k a unit without deps has 0 and any other unit 1 + the
\* greatest value its deps had after round k - 1.
RECURSIVE layerAfterRounds(_, _)
layerAfterRounds(units, k) ==
    IF k = 0 THEN [id \in UnitIds(units) |-> 0]
    ELSE LET prev == layerAfterRounds(units, k - 1)
         IN  [id \in UnitIds(units) |->
                LET deps == Range(findUnit(units, id).deps)
                IN  IF deps = {} THEN 0 ELSE 1 + MaxOf({prev[d] : d \in deps})]

\* In a list without cycles no chain of deps is longer than the list.
referenceLayer(units) == layerAfterRounds(units, Len(units))

\* C32: for a unit list with unique ids, resolvable deps and no cycle the
\* layers are exactly the reference layering: as many layers as the greatest
\* reference layer plus one, layer i being the units of reference layer i in
\* the order of the input list; computing the layers again gives the same.
C32_ReferenceLayering ==
    (layered /\ depsResolve(workPlan) /\ acyclic(workPlan)) =>
        LET ref == referenceLayer(workPlan)
            inLayer(i) == SelectSeq(workPlan, LAMBDA u : ref[u.id] = i)
        IN  /\ Len(layers) = MaxOf({ref[id] : id \in UnitIds(workPlan)} \cup {0}) + 1
            /\ \A i \in DOMAIN layers : layers[i] = inLayer(i - 1)
            /\ layers = computeLayers(workPlan)

\* Two layers, the first with two units of which the one listed first in
\* the input is not the one named first in the third unit's deps.
C32_Witness ==
    /\ layered /\ depsResolve(workPlan) /\ acyclic(workPlan)
    /\ Len(layers) = 2
    /\ Len(layers[1]) = 2
    /\ \E n \in DOMAIN workPlan :
          Len(workPlan[n].deps) = 2 /\ workPlan[n].deps[1] = layers[1][2].id

\* ------------------------------------------------- dependency summaries

\* The implement rows a unit may have in the store: written in an earlier
\* iteration or in the current one, with a list of created files or null
\* (None; a list stands as [files |-> list]).  whatWasDone stands as the
\* text that unit wrote in that iteration.
ImplementRows(id) ==
    {[it |-> i, whatWasDone |-> << id, i >>, filesCreated |-> f] :
        i \in 0..1, f \in {None, [files |-> << id >>]}}

\* One entry of the dependency context.
DepSummary(depId, depImpl) ==
    [id |-> depId,
     whatWasDone |-> depImpl.whatWasDone,
     filesCreated |-> IF depImpl.filesCreated = None THEN << >>
                      ELSE depImpl.filesCreated.files]

\* A variant of buildDepSummaries that reads the implement row of the
\* current iteration only.
RECURSIVE buildDepSummariesThisPass(_, _, _, _)
buildDepSummariesThisPass(o, unit, it, k) ==
    IF k > Len(unit.deps) THEN << >>
    ELSE LET depImpl == outputMaybe(o, unit.deps[k], "implement", it)
         IN  (IF depImpl = None THEN << >>
              ELSE << DepSummary(unit.deps[k], depImpl) >>)
             \o buildDepSummariesThisPass(o, unit, it, k + 1)

\* buildDepSummaries(unit): deps mapped to the summary of their latest
\* implement row, null where there is none, nulls filtered out; k is the
\* position in deps, it the iteration of the render.
RECURSIVE buildDepSummaries(_, _, _, _)
buildDepSummaries(o, unit, it, k) ==
    IF k > Len(unit.deps) THEN << >>
    ELSE LET depImpl == latest(o, unit.deps[k], "implement")
         IN  (IF depImpl = None THEN << >>
              ELSE << DepSummary(unit.deps[k], depImpl) >>)
             \o buildDepSummaries(o, unit, it, k + 1)

\* Units a, b, c and a unit u with any deps list over them and an id that
\* names no unit; a, b and c with or without an implement row, in the
\* render of iteration 1.
InitDeps ==
    /\ \E ds \in DepLists :
          workPlan = unitList(<< << >>, << >>, << >> >>) \o << Unit("u", ds, "small") >>
    /\ maxConcurrency = 1
    /\ layers = << >>
    /\ unitLayerMap = << >>
    /\ \E rows \in [Range(DagIds) -> {None} \cup UNION {ImplementRows(d) : d \in Range(DagIds)}] :
          /\ \A d \in Range(DagIds) : rows[d] = None \/ rows[d] \in ImplementRows(d)
          /\ out = [d \in Range(DagIds) |->
                      [s \in StageNames |-> IF s = "implement" THEN rows[d] ELSE None]]
    /\ mq = << >>
    /\ pass_tracker = None
    /\ completion_report = None
    /\ iteration = 1
    /\ loopPos = [phase |-> "deps", layer |-> 0]
    /\ fin = << >>
    /\ run = << >>
    /\ failed = << >>
    /\ tickets = {}
    /\ everLanded = {}
    /\ evictedIn = << >>
    /\ mqDone = {}
    /\ verdict = None

\* The pipeline of u is rendered: depSummaries={buildDepSummaries(unit)}.
RenderDepSummaries ==
    /\ loopPos.phase = "deps"
    /\ verdict' = [unitId |-> "u",
                   depSummaries |-> buildDepSummaries(out, findUnit(workPlan, "u"),
                                                      iteration, 1)]
    /\ loopPos' = [loopPos EXCEPT !.phase = "summarised"]
    /\ UNCHANGED << workPlan, maxConcurrency, layers, unitLayerMap, out, mq,
                    pass_tracker, completion_report, iteration, fin, run,
                    failed, tickets, everLanded, evictedIn, mqDone >>

NextDeps == RenderDepSummaries

SpecDeps == InitDeps /\ [][NextDeps]_vars

\* The deps of u that have an implement row, in deps order.
depsWithRecord ==
    SelectSeq(findUnit(workPlan, "u").deps,
              LAMBDA d : d \in DOMAIN out /\ out[d]["implement"] # None)

\* C33: the dependency context of a unit's implement stage has one entry
\* for each dep that has an implement row, in deps order, holding what the
\* latest implement row of that dep says; a dep without an implement row
\* has no entry.
C33_DepContext ==
    loopPos.phase = "summarised" =>
        /\ Len(verdict.depSummaries) = Len(depsWithRecord)
        /\ \A k \in DOMAIN verdict.depSummaries :
              LET d == depsWithRecord[k]
                  e == verdict.depSummaries[k]
              IN  /\ e.id = d
                  /\ e.whatWasDone = out[d]["implement"].whatWasDone
                  /\ out[d]["implement"].filesCreated # None =>
                        e.filesCreated = out[d]["implement"].filesCreated.files

\* u names an id without a row first, then a dep whose row is of an earlier
\* iteration, and the context has that one entry.
C33_Witness ==
    /\ loopPos.phase = "summarised"
    /\ Len(findUnit(workPlan, "u").deps) = 2
    /\ Len(verdict.depSummaries) = 1
    /\ verdict.depSummaries[1].id = findUnit(workPlan, "u").deps[2]
    /\ verdict.depSummaries[1].whatWasDone[2] = 0

\* C34: a unit is a ticket of the merge queue, and is in a landed list,
\* only when every unit named in its deps is in a landed list already.
C34_DepsLandedBeforeOffer ==
    /\ \A u \in tickets : depsOf(u) \subseteq everLanded
    /\ \A u \in everLanded : depsOf(u) \subseteq everLanded

\* C35: every cycle error validateDAG reports names a deps edge that lies on
\* a cycle of the list; an edge on no cycle is not reported as a cycle edge.
C35_OnlyCycleEdges ==
    validated => \A e \in cycleErrors : onCycle(e)

\* The gate has been evaluated for the unit of the plan, of tier medium,
\* with a test row that reports build and tests passing.
mediumEvaluated ==
    /\ loopPos.phase = "tier"
    /\ verdict # None
    /\ verdict.unitId = "u"
    /\ gateTier("u") = "medium"
    /\ testGate("u")

\* C36: skip/gate consistency: when the rows of a medium unit make review-fix
\* skipped, in the component or in the generated workflow, and its latest
\* test row reports build and tests passing, the unit is tier-complete.
C36_SkipImpliesComplete ==
    mediumEvaluated =>
        /\ bothApproved(out, "medium", "u") => verdict.complete
        /\ skipIfGenerated(out, "medium", "u") => verdict.complete

\* The part of C36 that holds: the skipIf of the component and the gate
\* agree.
C36_ComponentSkipImpliesComplete ==
    mediumEvaluated => (bothApproved(out, "medium", "u") => verdict.complete)

\* The store with the rows of the stages of the tier's list only.
ownRows(o, tier) ==
    [u \in DOMAIN o |->
        [s \in StageNames |-> IF tierHasStep(tier, s) THEN o[u][s] ELSE None]]

\* C37: for every tier the tier-complete predicate gives the same answer
\* on the store and on the store reduced to the rows of the stages in the
\* tier's stage list; a unit of an unknown tier, and an id that names no
\* unit, is gated as large: tests and build pass and the final review is
\* ready to move on, and tierHasStep answers for it as for large.
C37_GateReadsOwnStages ==
    (loopPos.phase = "tier" /\ verdict # None) =>
        LET id == verdict.unitId
            tier == gateTier(id)
        IN  /\ verdict.complete = tierComplete(ownRows(out, tier), workPlan, id)
            /\ tier \notin {"trivial", "small", "medium"} =>
                  /\ verdict.complete = (testGate(id) /\ readyToMoveOn(id))
                  /\ \A s \in StageNames : tierHasStep(tier, s) = tierHasStep("large", s)

\* A unit of an unknown tier is tier-complete on its test and final-review
\* rows, its reviews not approving and no review-fix row.
C37_Witness ==
    /\ loopPos.phase = "tier"
    /\ verdict # None
    /\ verdict.unitId = "u"
    /\ gateTier("u") = "huge"
    /\ verdict.complete
    /\ ~approvedBy("u", "code-review")
    /\ latest(out, "u", "review-fix") = None

\* ------------------------------------------------- the landing gates, alone

\* The rows the node merge-queue:layer-n may hold: none, or a row whose
\* landed and evicted lists are any lists of units of the layer; the schema
\* does not keep an id out of both.
storedMqRows(layer) ==
    {None} \cup
    {[ticketsLanded |-> l,
      ticketsEvicted |-> e,
      details |-> [u \in e |-> EvictionDetail(u, 0)],
      reasons |-> [u \in e |-> "conflict"],
      found |-> << >>,
      ticketsSkipped |-> UnitIds(layer) \ (l \cup e)] :
        l \in SUBSET UnitIds(layer), e \in SUBSET UnitIds(layer)}

\* The workflow's derived values for a plan, with any merge queue rows in
\* the store, at the render of iteration 1.
InitGatesOf(units) ==
    /\ workPlan = units
    /\ maxConcurrency = 1
    /\ layers = computeLayers(units)
    /\ unitLayerMap = unitLayerMapOf(computeLayers(units))
    /\ out = [u \in UnitIds(units) |-> [s \in StageNames |-> None]]
    /\ \E m \in [0..(Len(computeLayers(units)) - 1) ->
                   UNION {storedMqRows(computeLayers(units)[i]) :
                             i \in DOMAIN computeLayers(units)}] :
          /\ \A k \in DOMAIN m : m[k] \in storedMqRows(computeLayers(units)[k + 1])
          /\ mq = m
    /\ pass_tracker = [totalIterations |-> 1]
    /\ completion_report = None
    /\ iteration = 1
    /\ loopPos = [phase |-> "gates", layer |-> 0]
    /\ fin = [u \in UnitIds(units) |-> {}]
    /\ run = [u \in UnitIds(units) |-> {}]
    /\ failed = [u \in UnitIds(units) |-> {}]
    /\ tickets = {}
    /\ everLanded = {}
    /\ evictedIn = [u \in UnitIds(units) |-> -1]
    /\ mqDone = {}
    /\ verdict = None

InitGates == \E units \in {PlanAB, PlanAC} : InitGatesOf(units)

\* unitLanded, unitEvicted and getEvictionContext are called for a unit of
\* the plan or for an id the plan does not hold.
EvalGates(unitId) ==
    /\ loopPos.phase = "gates"
    /\ verdict = None
    /\ verdict' = [unitId |-> unitId,
                   landed |-> unitLanded(mq, unitLayerMap, unitId),
                   evicted |-> unitEvicted(mq, unitLayerMap, unitId),
                   evictionContext |-> getEvictionContext(mq, unitLayerMap, unitId)]
    /\ UNCHANGED << workPlan, maxConcurrency, layers, unitLayerMap, out, mq,
                    pass_tracker, completion_report, iteration, loopPos, fin, run,
                    failed, tickets, everLanded, evictedIn, mqDone >>

NextGates == \E unitId \in {"a", "b", "c", "ghost"} : EvalGates(unitId)

SpecGates == InitGates /\ [][NextGates]_vars

\* The row consulted for the unit of the verdict lists it as landed and as
\* evicted.
inBothLists ==
    /\ loopPos.phase = "gates"
    /\ verdict # None
    /\ verdict.unitId \in DOMAIN unitLayerMap
    /\ mq[unitLayerMap[verdict.unitId]] # None
    /\ verdict.unitId \in mq[unitLayerMap[verdict.unitId]].ticketsLanded
    /\ verdict.unitId \in mq[unitLayerMap[verdict.unitId]].ticketsEvicted

\* C38: landed supersedes eviction: when the latest merge queue row of a
\* unit's layer lists the unit as landed and as evicted, the unit is
\* treated as landed, not as evicted, and has no eviction detail.
C38_LandedSupersedes ==
    inBothLists =>
        /\ verdict.landed
        /\ ~verdict.evicted
        /\ verdict.evictionContext = None

\* The gates have been evaluated for a unit in both lists of its row, the
\* other unit of the layer being evicted only.
C38_Witness ==
    /\ inBothLists
    /\ verdict.landed
    /\ \E u \in mq[unitLayerMap[verdict.unitId]].ticketsEvicted :
          u \notin mq[unitLayerMap[verdict.unitId]].ticketsLanded

\* ------------------------------------- the layering of the generated workflow

RECURSIVE getLayerMemoFirstDep(_, _, _)
RECURSIVE getLayerMemo(_, _, _)
RECURSIVE depsMemo(_, _, _, _)

\* unit.deps.map((d) => getLayer(d)): the deps are visited in order, each
\* call seeing the layerOf map the calls before it left.
depsMemo(units, deps, k, layerOf) ==
    IF k > Len(deps) THEN layerOf
    ELSE depsMemo(units, deps, k + 1, getLayerMemo(units, deps[k], layerOf))

\* A variant of getLayerMemo that takes the layer of the first dep for the
\* greatest.
getLayerMemoFirstDep(units, id, layerOf) ==
    IF id \in DOMAIN layerOf THEN layerOf
    ELSE LET unit == findUnit(units, id)
         IN  IF unit = None \/ Len(unit.deps) = 0
             THEN layerOf @@ (id :> 0)
             ELSE LET after == depsMemo(units, unit.deps, 1, layerOf)
                  IN  after @@ (id :> after[unit.deps[1]] + 1)

\* getLayer of the generated workflow, with its memo map: the map after the
\* call; the value returned is the map's entry for id.
getLayerMemo(units, id, layerOf) ==
    IF id \in DOMAIN layerOf THEN layerOf
    ELSE LET unit == findUnit(units, id)
         IN  IF unit = None \/ Len(unit.deps) = 0
             THEN layerOf @@ (id :> 0)
             ELSE LET after == depsMemo(units, unit.deps, 1, layerOf)
                      maxDepLayer == MaxOf({after[unit.deps[k]] : k \in DOMAIN unit.deps})
                  IN  after @@ (id :> maxDepLayer + 1)

\* for (const unit of units) getLayer(unit.id)
RECURSIVE unitsMemo(_, _, _)
unitsMemo(units, n, layerOf) ==
    IF n > Len(units) THEN layerOf
    ELSE unitsMemo(units, n + 1, getLayerMemo(units, units[n].id, layerOf))

\* computeLayers of the generated workflow: maxLayer is taken over all the
\* values of the memo map, each layer is units.filter by the map's entry.
computeLayersGenerated(units) ==
    LET layerOf == unitsMemo(units, 1, [id \in {} |-> 0])
        maxLayer == MaxOf(Range(layerOf) \cup {0})
    IN  [i \in 1..(maxLayer + 1) |->
            SelectSeq(units, LAMBDA u : layerOf[u.id] = i - 1)]

\* C39: for a unit list with resolvable deps and no cycle the layering of
\* the generated workflow equals the layers computeLayers of the library
\* returned: the same units in every layer, in the same order.
C39_GeneratedLayersEqual ==
    (layered /\ depsResolve(workPlan) /\ acyclic(workPlan)) =>
        layers = computeLayersGenerated(workPlan)

\* Two units of the second layer share their dep, which the second of them
\* finds in the memo map.
C39_Witness ==
    /\ layered /\ depsResolve(workPlan) /\ acyclic(workPlan)
    /\ Len(layers) = 2
    /\ Len(layers[2]) = 2
    /\ layers[2][1].deps = layers[2][2].deps
    /\ layers = computeLayersGenerated(workPlan)

\* C40: for a plan with at least one unit the ceiling of the loop is at
\* least maxPasses, the loop is never at its ceiling while done is false,
\* and it ends only with done true; for a plan without units done holds at
\* the first render and no pass runs.
C40_CeilingNeverStops ==
    /\ [](Len(workPlan) >= 1 =>
            /\ maxIterations >= maxPasses
            /\ (loopPos.phase = "ralph"
                /\ ~done(pass_tracker, mq, unitLayerMap, workPlan)) =>
                  iteration < maxIterations)
    /\ [](Len(workPlan) = 0 =>
            /\ done(pass_tracker, mq, unitLayerMap, workPlan)
            /\ iteration = 0
            /\ loopPos.phase \in {"ralph", "report", "done"})
    /\ [][(loopPos.phase = "ralph" /\ loopPos'.phase = "report") =>
             done(pass_tracker, mq, unitLayerMap, workPlan)]_vars

\* The loop has ended after maxPasses passes, far below its ceiling, with a
\* unit that is not landed.
C40_Witness ==
    /\ loopPos.phase = "report"
    /\ iteration = maxPasses
    /\ iteration < maxIterations
    /\ ~allUnitsComplete(mq, unitLayerMap, workPlan)

====
